---- MODULE Spec2Model ----
(***************************************************************************)
(* A model of claude-code-server's execution-and-orchestration layer:      *)
(* the task queue (TaskQueue) over the file-backed task store (TaskStore   *)
(* on BaseStore/LowDB), and the executor's budget enforcement over the     *)
(* session and statistics stores.                                          *)
(*                                                                         *)
(* Every async function is cut at its suspension points (await of file     *)
(* I/O, of the lock, of the child process, of the webhook).  Code between  *)
(* two suspension points runs in one step, as on Node's single thread.     *)
(*                                                                         *)
(* A store is three documents: `disk` (the JSON file), `mem` (db.data, the *)
(* one in-memory document every operation of the process shares) and       *)
(* `wbuf` (the text db.write() serialised when it was called, on its way   *)
(* to the file).  db.read() replaces mem by disk; an operation under       *)
(* withLock changes mem WITHOUT reading first and writes mem out.          *)
(***************************************************************************)
EXTENDS Integers, Sequences, FiniteSets, TLC

\* ---------------------------------------------------------------- bounds
MaxTasks == 3          \* task records a document holds
MaxAdds == 2           \* addTask calls of a run
MaxCancels == 1        \* cancelTask calls of a run
MaxWorkers == 2        \* processQueue invocations in flight at once
InitConcurrency == 1   \* config.taskQueue.concurrency of the run
TwoSlots == 2          \* config.taskQueue.concurrency of a run with two slots
MaxDispatch == 2       \* dispatches per task the history `ndisp` counts
MaxExec == 2           \* execute calls in flight at once
MaxCalls == 3          \* execute calls of a run
Budget == 3            \* maxBudgetUsd of every call, in cost units
MaxCost == 2           \* largest total_cost_usd a child reports, in cost units
MaxProcs == 2          \* processes with a store instance on the same file
MaxOps == 2            \* withLock operations of each such process
MaxRecs == 3           \* recordRequest calls issued concurrently
MaxRetriesCfg == 7     \* largest config.webhook.retries tried
MaxReloads == 2        \* hotReloadConfig calls in flight at once
MaxEdits == 2          \* modifications of config.json in a run
MaxConc == 2           \* largest taskQueue.concurrency written to config.json
MaxEvents == 2         \* events kept per task
TickMs == 250          \* granularity of time in the debounce model, ms
MaxNotifies == 2       \* axios.post calls made by notify
MaxTimeoutCfg == 2     \* largest taskQueue.defaultTimeout written to config.json
InitTimeout == 1       \* config.taskQueue.defaultTimeout of the run
MaxSignals == 2        \* SIGTERM/SIGINT signals of a run
MaxSessions == 3       \* sessions a run creates
MaxReqs == 2           \* continue requests of a run
MaxAge == 3            \* days after which a session's age is no longer counted
RetentionDays == 1     \* config.sessionRetentionDays of the run

Tasks == 1..MaxTasks
Workers == 1..MaxWorkers
Priorities == {5, 9}
NoTask == 0
Execs == 1..MaxExec
Costs == 1..MaxCost

\* ------------------------------------------------------------ task store
VARIABLES
    disk,        \* tasks.json: task id -> record
    mem,         \* taskStore.db.data
    wbuf,        \* document handed to db.write(), not yet in the file
    lock,        \* tasks.json.lock exists
    created      \* number of task records created so far (ids 1..created)

\* ------------------------------------------------------------ task queue
VARIABLES
    running,     \* TaskQueue.running
    timerOn,     \* TaskQueue.pendingCheckInterval is installed
    kick,        \* a processQueue call is scheduled (setImmediate / direct)
    concurrency, \* TaskQueue.concurrency
    active,      \* keys of TaskQueue.activeTasks
    wpc,         \* per invocation: position in processQueue / executeTask
    wtask,       \* per invocation: the task it fetched
    wres,        \* per invocation: what the executor returned
    wtimer,      \* per invocation: the executeTask timeout timer / handler
    spc,         \* position of start()
    sset,        \* start(): processing tasks still to reset
    cpc,         \* position of cancelTask
    ctask,       \* cancelTask's task id
    cancels,     \* cancelTask calls so far
    apc,         \* position of addTask
    adds         \* addTask calls so far

\* ------------------------------------------- history (observation only)
VARIABLES
    ndisp,       \* task -> times it was handed to the executor (capped)
    cancelOK,    \* task -> persisted status a successful cancelTask overwrote
    restored     \* tasks start() found in processing

\* ------------------------------- executor, session store, statistics store
VARIABLES
    sess,        \* sessions.json / sessionStore.db.data, for the one session
    stats,       \* stats.json / statsStore.db.data: the requests counters
    epc,         \* per execute call: position in ClaudeExecutor.execute
    ecost,       \* per execute call: total_cost_usd of the child's result
    eret,        \* per execute call: what the last call returned
    erec,        \* per execute call: recordRequest calls it made (history)
    spawned,     \* child processes spawned so far (history)
    calls        \* per execute slot: calls made so far

\* --------------------------- one document shared by several processes
VARIABLES
    fdisk,       \* the JSON file: the set of items written to it
    flock,       \* the lock file: the process whose lock id it holds, or 0
    pmem,        \* per process: db.data of its store instance
    pwbuf,       \* per process: the document its db.write() serialised
    ppc,         \* per process: position in withLock
    pops,        \* per process: withLock operations started so far
    committed,   \* items whose withLock returned normally (history)
    failed       \* items whose db.write() failed (history)

\* ------------------------------------- recordRequest calls of one process
VARIABLES
    rpc          \* per recordRequest call: position in withLock

\* ------------------------------------------------------- WebhookNotifier
VARIABLES
    hpc,         \* position: not constructed, idle, in notify's loop, returned
    hcfg,        \* config.webhook.retries as configured
    hmax,        \* WebhookNotifier.maxRetries
    hattempt,    \* notify's loop variable `attempt`
    hposts,      \* axios.post calls notify made (history)
    hwaited,     \* the delays notify waited, in order (history)
    hret         \* what notify returned

\* ------------------------------------------- configuration and hot reload
VARIABLES
    fconc,       \* config.json: taskQueue.concurrency
    fopt,        \* config.json: enableRootCompatibility
    cconc,       \* the live config object: taskQueue.concurrency
    copt,        \* the live config object: enableRootCompatibility
    isRoot,      \* the server runs as uid 0
    rtimer,      \* the watcher's debounce timer is armed
    rl,          \* hotReloadConfig calls in flight, with their newConfig
    edits,       \* modifications of config.json so far
    envlog       \* spawnCommand calls: option, uid and the child's IS_SANDBOX

\* ------------------------------------------------- shutdown and stop()
VARIABLES
    sigs,        \* SIGTERM/SIGINT signals received so far
    shpc,        \* per shutdown call: idle, in stop()'s drain loop, closing
    capArmed,    \* stop()'s 10 s timer is armed
    capFired,    \* stop()'s 10 s timer has fired (history)
    latePoll,    \* the drain loop has polled after that (history)
    wdog,        \* per shutdown call: its 10 s forced-exit timer is armed
    exited       \* "no", or the exit code the process ended with

\* ------------------------------------------------- sessions and retention
VARIABLES
    sessions     \* sessions.json: per id, present or not, and the age of
                 \* updated_at in days

\* ----------------------------------------- executeTask's webhook delivery
VARIABLES
    whook        \* per processQueue invocation: how the last webhook call of
                 \* its executeTask ended (history)

\* ------------------------------------------ execute calls that succeeded
VARIABLES
    okCount,     \* execute calls that returned success: true (history)
    okCost       \* the sum of their cost_usd (history)

\* ------------------------------------------- POST /api/sessions/:id/continue
VARIABLES
    sstat,       \* sessions.json: per id, "absent" or the session's status
    rq           \* per continue request: position, session id, the status
                 \* sessionStore.get saw, executor invoked, HTTP answer

\* ------------------------------------------------ markProcessing failures
VARIABLES
    mfail        \* tasks for which a markProcessing call rejected (history)

\* ------------------------------------------- hot reload of defaultTimeout
VARIABLES
    ftime,       \* config.json: taskQueue.defaultTimeout
    ctime,       \* the live config object: taskQueue.defaultTimeout
    qtimeout,    \* TaskQueue.defaultTimeout, which executeTask's timer uses
    rlt          \* per hotReloadConfig call in flight: newConfig's defaultTimeout

\* --------------------------------------- hot reload of webhook settings
VARIABLES
    fwh,         \* config.json: webhook.enabled
    cwh,         \* the live config object: webhook.enabled
    nenabled,    \* WebhookNotifier.enabled, which notify tests
    ncfg,        \* WebhookNotifier.config.webhook.enabled
    rlw,         \* per hotReloadConfig call in flight: newConfig's webhook.enabled
    nret,        \* what the last notify call returned
    nposts       \* axios.post calls made by notify (history)

\* ------------------------------- the watcher's debounce and the agent path
VARIABLES
    tleft,       \* ms left on the watcher's debounce timer
    quiet,       \* ms since the last 'change' event, capped (history)
    bursts,      \* groups of 'change' events less than 500 ms apart (history)
    nreloads,    \* hotReloadConfig calls so far (history)
    lastFire,    \* at the last hotReloadConfig call: the quiet time, the
                 \* file's content and the content loadConfig read (history)
    fcp,         \* config.json: claudePath
    ccp,         \* the live config object: claudePath
    rlp,         \* per hotReloadConfig call in flight: newConfig's claudePath
    spawnedPath  \* the command of the last spawn after a reload (history)

\* -------------------------------------------------- cancelTask requests
VARIABLES
    creq         \* the last cancelTask call: its task id and the status its
                 \* taskStore.get found (history)

\* ----------------------------------------------- the queue's task events
VARIABLES
    events       \* per task: the taskCompleted, taskFailed and
                 \* taskCancelled events emitted for it, in order (history)

storeVars == <<disk, mem, wbuf, lock, created>>
routeVars == <<sstat, rq>>
tmoVars == <<ftime, ctime, qtimeout, rlt>>
whVars == <<fwh, cwh, nenabled, ncfg, rlw, nret, nposts>>
dbVars == <<tleft, quiet, bursts, nreloads, lastFire, fcp, ccp, rlp,
            spawnedPath>>
extVars == <<whVars, dbVars, creq, events>>
moreVars == <<whook, okCount, okCost, routeVars, mfail, tmoVars, extVars>>
shutVars == <<sigs, shpc, capArmed, capFired, latePoll, wdog, exited>>
cfgVars == <<fconc, fopt, cconc, copt, isRoot, rtimer, rl, edits, envlog>>
hookVars == <<hpc, hcfg, hmax, hattempt, hposts, hwaited, hret>>
procVars == <<fdisk, flock, pmem, pwbuf, ppc, pops, committed, failed>>
sideVars == <<procVars, rpc, hookVars, cfgVars, shutVars, sessions, moreVars>>
baseSide == <<procVars, rpc, hookVars, cfgVars, shutVars, sessions, whook,
              okCount, okCost, routeVars, mfail, tmoVars>>
execVars == <<sess, stats, epc, ecost, eret, erec, spawned, calls>>
schedVars == <<running, timerOn, kick, concurrency>>
workerVars == <<wpc, wtask, wres, wtimer>>
startVars == <<spc, sset>>
cancelVars == <<cpc, ctask, cancels>>
addVars == <<apc, adds>>
histVars == <<ndisp, cancelOK, restored>>
queueVars == <<schedVars, active, workerVars, startVars, cancelVars, addVars>>
vars == <<storeVars, queueVars, histVars, execVars, sideVars>>

\* ------------------------------------------------------------- TaskStore

\* A slot of the document that holds no task.
AbsentTask ==
    [status |-> "absent", priority |-> 0, result |-> "null",
     error |-> "null", cost_usd |-> 0]

\* TaskStore.create's record; created_at is the creation order, i.e. the id.
NewTask(p) ==
    [status |-> "pending", priority |-> p, result |-> "null",
     error |-> "null", cost_usd |-> 0]

getDefaultData == [t \in Tasks |-> AbsentTask]

Exists(doc, t) == t \in Tasks /\ doc[t].status # "absent"

\* TaskStore.update's body: findIndex, then merge the patch into the record.
\* An unknown id changes nothing (and the document is written all the same).
update(doc, t, patch) ==
    IF ~Exists(doc, t) THEN doc
    ELSE [doc EXCEPT ![t] =
            [f \in DOMAIN doc[t] |->
                IF f \in DOMAIN patch THEN patch[f] ELSE doc[t][f]]]

\* The comparator of list/getNextPending: negative when a sorts before b.
\* created_at is the creation order (the id); equal timestamps keep the
\* array's order under the stable sort, which is the creation order too.
taskCompare(doc, a, b) ==
    IF doc[a].priority # doc[b].priority
    THEN doc[b].priority - doc[a].priority
    ELSE a - b

\* getNextPending without its sort: the first pending record of the array.
getNextPendingUnsorted(doc) ==
    LET pending == {t \in Tasks : doc[t].status = "pending"}
    IN IF pending = {} THEN NoTask
       ELSE CHOOSE t \in pending : \A u \in pending : t <= u

\* TaskStore.getNextPending on a document just read: pendingTasks[0] || null.
getNextPending(doc) ==
    LET pending == {t \in Tasks : doc[t].status = "pending"}
    IN IF pending = {} THEN NoTask
       ELSE CHOOSE t \in pending :
                \A u \in pending : taskCompare(doc, t, u) <= 0

markProcessingPatch == [status |-> "processing"]
markCompletedPatch == [status |-> "completed", result |-> "output", cost_usd |-> 1]
markFailedPatch(err) == [status |-> "failed", error |-> err]
cancelPatch == [status |-> "cancelled"]

\* The status test of cancelTask and of TaskStore.cancel.
\* Any stored task.
CancellableLoose(doc, t) == Exists(doc, t)

Cancellable(doc, t) ==
    Exists(doc, t) /\ doc[t].status \in {"pending", "processing"}

Terminal(s) == s \in {"completed", "failed", "cancelled"}

\* ------------------------------------------------- BaseStore.withLock
\* acquireLock succeeds (the lock file is created), the operation changes
\* mem, and db.write() serialises mem: one step, there is no I/O between.
LockedOp(newMem) ==
    /\ ~lock
    /\ lock' = TRUE
    /\ mem' = newMem
    /\ wbuf' = newMem
    /\ UNCHANGED disk

\* The write reaches the file and releaseLock removes the lock file.
CommitWrite ==
    /\ lock
    /\ disk' = wbuf
    /\ wbuf' = getDefaultData
    /\ lock' = FALSE
    /\ UNCHANGED mem

\* db.read(): db.data becomes the file's content.
ReadDisk ==
    /\ mem' = disk
    /\ UNCHANGED <<disk, wbuf, lock>>

\* ------------------------------------------------------------------ Init
\* new TaskQueue(...): nothing in flight.
InitWorkers ==
    /\ kick = FALSE
    /\ active = {}
    /\ wpc = [w \in Workers |-> "idle"]
    /\ wtask = [w \in Workers |-> NoTask]
    /\ wres = [w \in Workers |-> "none"]
    /\ wtimer = [w \in Workers |-> "off"]
    /\ spc = "idle"
    /\ sset = {}
    /\ cpc = "idle"
    /\ ctask = NoTask
    /\ cancels = 0
    /\ apc = "idle"
    /\ adds = 0

InitIdle == concurrency = InitConcurrency /\ InitWorkers

\* The queue as constructed, start() not yet called.
InitQueue == running = FALSE /\ timerOn = FALSE /\ InitIdle

\* The queue after start() on a store without processing tasks.
InitStarted == running = TRUE /\ timerOn = TRUE /\ InitIdle

InitHist ==
    /\ ndisp = [t \in Tasks |-> 0]
    /\ cancelOK = [t \in Tasks |-> "no"]
    /\ restored = {}

\* A new data directory: BaseStore.init writes the default document.
InitEmptyStore ==
    /\ created = 0
    /\ disk = getDefaultData
    /\ mem = disk
    /\ wbuf = getDefaultData
    /\ lock = FALSE

\* The store as a previous run of the server left it: MaxTasks tasks, each
\* still pending or (the process died while it ran) processing.
InitLeftStore ==
    /\ created = MaxTasks
    /\ disk \in [Tasks -> {NewTask(p) : p \in Priorities} \cup
                   {[NewTask(p) EXCEPT !.status = "processing"] : p \in Priorities}]
    /\ mem = disk
    /\ wbuf = getDefaultData
    /\ lock = FALSE

\* ------------------------------------------------- TaskQueue.processQueue
QueueFull == Cardinality(active) >= concurrency

\* setImmediate(() => this.processQueue()), or a direct call whose result
\* nobody awaits.  Once the 1 Hz interval is installed it may call
\* processQueue at any moment anyway, so the flag is kept only before that.
Schedule ==
    /\ kick' = ~timerOn
    /\ UNCHANGED <<running, timerOn, concurrency>>

\* A processQueue call (1 Hz timer, setImmediate of addTask or of a finished
\* executeTask, start) passes `running` and the concurrency check and
\* suspends in getNextPending.
PQStart(w) ==
    /\ wpc[w] = "idle" /\ wtimer[w] = "off"
    /\ \A v \in Workers : v < w => ~(wpc[v] = "idle" /\ wtimer[v] = "off")
    /\ running /\ (timerOn \/ kick)
    /\ ~QueueFull
    /\ wpc' = [wpc EXCEPT ![w] = "fetch"]
    /\ kick' = FALSE
    /\ UNCHANGED <<storeVars, running, timerOn, concurrency, active, wtask,
                   wres, wtimer, startVars, cancelVars, addVars, histVars>>

\* A scheduled processQueue call that returns at once: the queue is stopped
\* or full.
PQSkip ==
    /\ kick
    /\ ~running \/ QueueFull
    /\ kick' = FALSE
    /\ UNCHANGED <<storeVars, running, timerOn, concurrency, active,
                   workerVars, startVars, cancelVars, addVars, histVars>>

\* getNextPending's read returns; no task, or one already active: return.
\* Otherwise the id goes into activeTasks and markProcessing is called.
PQFetch(w) ==
    /\ wpc[w] = "fetch"
    /\ ReadDisk
    /\ LET t == getNextPending(disk) IN
         IF t = NoTask \/ t \in active
         THEN /\ wpc' = [wpc EXCEPT ![w] = "idle"]
              /\ UNCHANGED <<active, wtask>>
         ELSE /\ active' = active \cup {t}
              /\ wtask' = [wtask EXCEPT ![w] = t]
              /\ wpc' = [wpc EXCEPT ![w] = "mark"]
    /\ UNCHANGED <<created, schedVars, wres, wtimer, startVars, cancelVars,
                   addVars, histVars>>

\* markProcessing -> update -> withLock: the lock is taken, the record is
\* patched in mem, the write is issued.
PQMarkOp(w) ==
    /\ wpc[w] = "mark"
    /\ LockedOp(update(mem, wtask[w], markProcessingPatch))
    /\ wpc' = [wpc EXCEPT ![w] = "markWrite"]
    /\ UNCHANGED <<created, schedVars, active, wtask, wres, wtimer, startVars,
                   cancelVars, addVars, histVars>>

\* The write is on disk; processQueue calls executeTask, which (again) puts
\* the id into activeTasks, arms the timeout and calls the executor.
PQMarkCommit(w) ==
    /\ wpc[w] = "markWrite"
    /\ CommitWrite
    /\ active' = active \cup {wtask[w]}
    /\ wtimer' = [wtimer EXCEPT ![w] = "armed"]
    /\ wpc' = [wpc EXCEPT ![w] = "exec"]
    /\ ndisp' = [ndisp EXCEPT ![wtask[w]] =
                   IF @ < MaxDispatch THEN @ + 1 ELSE @]
    /\ UNCHANGED <<created, schedVars, wtask, wres, startVars, cancelVars,
                   addVars, cancelOK, restored>>

\* -------------------------------------------------- TaskQueue.executeTask
\* claudeExecutor.execute returns (success or not); clearTimeout stops a
\* timer that has not fired yet; markCompleted/markFailed is called.
ExecReturn(w, res) ==
    /\ wpc[w] = "exec"
    /\ wres' = [wres EXCEPT ![w] = res]
    /\ wtimer' = [wtimer EXCEPT ![w] = IF @ = "armed" THEN "off" ELSE @]
    /\ wpc' = [wpc EXCEPT ![w] = "doneGet"]
    /\ UNCHANGED <<storeVars, schedVars, active, wtask, startVars, cancelVars,
                   addVars, histVars>>

\* markCompleted/markFailed: get(taskId) reads the file; no such task: null.
DoneGet(w) ==
    /\ wpc[w] = "doneGet"
    /\ ReadDisk
    /\ wpc' = [wpc EXCEPT ![w] =
                 IF Exists(disk, wtask[w]) THEN "doneOp" ELSE "notify"]
    /\ UNCHANGED <<created, schedVars, active, wtask, wres, wtimer, startVars,
                   cancelVars, addVars, histVars>>

\* The patch markCompleted (the executor succeeded) or markFailed writes.
donePatch(res) ==
    IF res = "ok" THEN markCompletedPatch ELSE markFailedPatch("exec")

\* markCompleted/markFailed: update under the lock.
DoneOp(w) ==
    /\ wpc[w] = "doneOp"
    /\ LockedOp(update(mem, wtask[w], donePatch(wres[w])))
    /\ wpc' = [wpc EXCEPT ![w] = "doneWrite"]
    /\ UNCHANGED <<created, schedVars, active, wtask, wres, wtimer, startVars,
                   cancelVars, addVars, histVars>>

\* The terminal status is on disk; the event is emitted and the webhook
\* notification starts.
DoneCommit(w) ==
    /\ wpc[w] = "doneWrite"
    /\ CommitWrite
    /\ wpc' = [wpc EXCEPT ![w] = "notify"]
    /\ UNCHANGED <<created, schedVars, active, wtask, wres, wtimer, startVars,
                   cancelVars, addVars, histVars>>

\* The webhook call is over (delivered or not); finally: the id leaves
\* activeTasks and a processQueue call is scheduled.
ExecFinally(w) ==
    /\ wpc[w] = "notify"
    /\ active' = active \ {wtask[w]}
    /\ Schedule
    /\ wpc' = [wpc EXCEPT ![w] = "idle"]
    /\ wres' = [wres EXCEPT ![w] = "none"]
    /\ wtimer' = [wtimer EXCEPT ![w] = IF @ = "done" THEN "off" ELSE @]
    /\ wtask' = [wtask EXCEPT ![w] =
                   IF wtimer[w] \in {"off", "done"} THEN NoTask ELSE @]
    /\ UNCHANGED <<storeVars, startVars, cancelVars, addVars, histVars>>

\* ------------------------------------- executeTask's timeout (setTimeout)
\* The timer fires while the executor has not returned.
TimeoutFire(w) ==
    /\ wtimer[w] = "armed" /\ wpc[w] = "exec"
    /\ wtimer' = [wtimer EXCEPT ![w] = "get"]
    /\ UNCHANGED <<storeVars, schedVars, active, wpc, wtask, wres, startVars,
                   cancelVars, addVars, histVars>>

\* markFailed(taskId, 'Task execution timeout'): get reads the file.  No
\* such task: null, and the handler goes on (the id leaves activeTasks).
TimeoutGet(w) ==
    /\ wtimer[w] = "get"
    /\ ReadDisk
    /\ IF Exists(disk, wtask[w])
       THEN /\ wtimer' = [wtimer EXCEPT ![w] = "op"]
            /\ UNCHANGED active
       ELSE /\ wtimer' = [wtimer EXCEPT ![w] = "notify"]
            /\ active' = active \ {wtask[w]}
    /\ UNCHANGED <<created, schedVars, wpc, wtask, wres, startVars,
                   cancelVars, addVars, histVars>>

TimeoutOp(w) ==
    /\ wtimer[w] = "op"
    /\ LockedOp(update(mem, wtask[w], markFailedPatch("timeout")))
    /\ wtimer' = [wtimer EXCEPT ![w] = "write"]
    /\ UNCHANGED <<created, schedVars, active, wpc, wtask, wres, startVars,
                   cancelVars, addVars, histVars>>

\* 'failed' is on disk; the id leaves activeTasks, taskFailed is emitted and
\* the webhook notification starts.
TimeoutCommit(w) ==
    /\ wtimer[w] = "write"
    /\ CommitWrite
    /\ active' = active \ {wtask[w]}
    /\ wtimer' = [wtimer EXCEPT ![w] = "notify"]
    /\ UNCHANGED <<created, schedVars, wpc, wtask, wres, startVars,
                   cancelVars, addVars, histVars>>

\* The webhook call is over; the handler calls processQueue.  "done": the
\* handler has run and executeTask itself is still under way.
TimeoutNotify(w) ==
    /\ wtimer[w] = "notify"
    /\ wtimer' = [wtimer EXCEPT ![w] = IF wpc[w] = "idle" THEN "off" ELSE "done"]
    /\ wtask' = [wtask EXCEPT ![w] = IF wpc[w] = "idle" THEN NoTask ELSE @]
    /\ Schedule
    /\ UNCHANGED <<storeVars, active, wpc, wres, startVars, cancelVars,
                   addVars, histVars>>

\* ------------------------------------------------------ TaskQueue.start
\* start(): running is set, restorePendingTasks suspends in list().
StartCall ==
    /\ ~running /\ spc = "idle"
    /\ running' = TRUE
    /\ spc' = "list"
    /\ UNCHANGED <<storeVars, timerOn, kick, concurrency, active, workerVars,
                   sset, cancelVars, addVars, histVars>>

\* restorePendingTasks: list({status:'processing'}) has read the file.
StartList ==
    /\ spc = "list"
    /\ ReadDisk
    /\ LET found == {t \in Tasks : disk[t].status = "processing"} IN
         /\ sset' = found
         /\ restored' = found
         /\ spc' = IF found = {} THEN "tick" ELSE "reset"
    /\ UNCHANGED <<created, schedVars, active, workerVars, cancelVars,
                   addVars, ndisp, cancelOK>>

\* The next task of the listed ones, in list()'s order.
NextToReset ==
    CHOOSE t \in sset : \A u \in sset : taskCompare(disk, t, u) <= 0

\* restorePendingTasks: update(task.id, {status:'pending'}) under the lock.
StartResetOp ==
    /\ spc = "reset"
    /\ LockedOp(update(mem, NextToReset, [status |-> "pending"]))
    /\ spc' = "resetWrite"
    /\ UNCHANGED <<created, schedVars, active, workerVars, sset, cancelVars,
                   addVars, histVars>>

StartResetCommit ==
    /\ spc = "resetWrite"
    /\ CommitWrite
    /\ sset' = sset \ {NextToReset}
    /\ spc' = IF sset' = {} THEN "tick" ELSE "reset"
    /\ UNCHANGED <<created, schedVars, active, workerVars, cancelVars,
                   addVars, histVars>>

\* start() after the restore: processQueue() is called and the 1 Hz
\* interval is installed.
StartTick ==
    /\ spc = "tick"
    /\ kick' = FALSE
    /\ timerOn' = TRUE
    /\ spc' = "idle"
    /\ UNCHANGED <<storeVars, running, concurrency, active, workerVars, sset,
                   cancelVars, addVars, histVars>>

\* -------------------------------------------------- TaskQueue.cancelTask
\* cancelTask(t): get(t) has read the file.  Unknown or finished task:
\* success=false.  Else the id leaves activeTasks and taskStore.cancel is
\* called (which suspends in its own get).
CancelGet(t) ==
    /\ cpc = "idle"
    /\ cancels < MaxCancels
    /\ cancels' = cancels + 1
    /\ ReadDisk
    /\ IF Cancellable(disk, t)
       THEN /\ active' = active \ {t}
            /\ ctask' = t
            /\ cpc' = "get2"
       ELSE UNCHANGED <<active, ctask, cpc>>
    /\ UNCHANGED <<created, schedVars, workerVars, startVars, addVars,
                   histVars>>

\* taskStore.cancel: get has read the file; not cancellable any more: null,
\* and cancelTask answers 'Failed to cancel task'.
CancelGet2 ==
    /\ cpc = "get2"
    /\ ReadDisk
    /\ IF Cancellable(disk, ctask)
       THEN cpc' = "op" /\ UNCHANGED ctask
       ELSE cpc' = "idle" /\ ctask' = NoTask
    /\ UNCHANGED <<cancels, created, schedVars, active, workerVars, startVars, addVars,
                   histVars>>

\* taskStore.cancel: update(taskId, {status:'cancelled'}) under the lock.
\* update returns null when the id is not in mem.
CancelOp ==
    /\ cpc = "op"
    /\ LockedOp(update(mem, ctask, cancelPatch))
    /\ cpc' = IF Exists(mem, ctask) THEN "write" ELSE "writeNull"
    /\ UNCHANGED <<cancels, created, schedVars, active, workerVars, startVars, ctask,
                   addVars, histVars>>

\* The write is on disk.  update returned the record: taskCancelled is
\* emitted and cancelTask answers success=true; it returned null:
\* 'Failed to cancel task'.
CancelCommit ==
    /\ cpc \in {"write", "writeNull"}
    /\ CommitWrite
    /\ cancelOK' = IF cpc = "write"
                   THEN [cancelOK EXCEPT ![ctask] = disk[ctask].status]
                   ELSE cancelOK
    /\ cpc' = "idle"
    /\ ctask' = NoTask
    /\ UNCHANGED <<cancels, created, schedVars, active, workerVars, startVars, addVars,
                   ndisp, restored>>

\* ----------------------------------------------------- TaskQueue.addTask
\* addTask -> taskStore.create under the lock: the record is pushed to mem.
AddOp(p) ==
    /\ apc = "idle"
    /\ created < MaxTasks /\ adds < MaxAdds
    /\ LockedOp([mem EXCEPT ![created + 1] = NewTask(p)])
    /\ created' = created + 1
    /\ adds' = adds + 1
    /\ apc' = "write"
    /\ UNCHANGED <<schedVars, active, workerVars, startVars, cancelVars,
                   histVars>>

\* The write is on disk; addTask schedules a processQueue call.
AddCommit ==
    /\ apc = "write"
    /\ CommitWrite
    /\ Schedule
    /\ apc' = "idle"
    /\ UNCHANGED <<created, active, workerVars, startVars, cancelVars, adds,
                   histVars>>

\* --------------------------------------------------- reads by HTTP routes
\* GET /api/tasks/:id (taskStore.get) and the other read routes: db.read().
StoreRead ==
    /\ mem # disk
    /\ ReadDisk
    /\ UNCHANGED <<created, queueVars, histVars>>

\* ------------------------------------- session store, statistics store
\* A store as one record: disk, mem (db.data), wbuf, lock, as above.
NewStore(doc) == [disk |-> doc, mem |-> doc, wbuf |-> doc, lock |-> FALSE]

\* withLock up to the db.write() call: lock file created, operation applied
\* to db.data, db.data serialised.
withLockOp(st, newMem) ==
    [st EXCEPT !.lock = TRUE, !.mem = newMem, !.wbuf = newMem]

\* The write is in the file, the lock file is removed.
withLockCommit(st) == [st EXCEPT !.disk = st.wbuf, !.lock = FALSE]

\* db.read()
dbRead(st) == [st EXCEPT !.mem = st.disk]

\* SessionStore.create's record, the fields the budget uses.
NewSession == [total_cost_usd |-> 0, messages_count |-> 0]

\* SessionStore.addCost / incrementMessages, applied to db.data.
addCost(doc, c) == [doc EXCEPT !.total_cost_usd = @ + c]
incrementMessages(doc) == [doc EXCEPT !.messages_count = @ + 1]

\* StatsStore.getDefaultData's requests counters and the count of the one
\* model every request carries (models[model].count), and recordRequest.
NewStats == [total |-> 0, successful |-> 0, failed |-> 0, models |-> 0]

recordRequest(doc, success) ==
    IF success
    THEN [doc EXCEPT !.total = @ + 1, !.successful = @ + 1, !.models = @ + 1]
    ELSE [doc EXCEPT !.total = @ + 1, !.failed = @ + 1, !.models = @ + 1]

InitExec ==
    /\ sess = NewStore(NewSession)
    /\ stats = NewStore(NewStats)
    /\ epc = [e \in Execs |-> "idle"]
    /\ ecost = [e \in Execs |-> 0]
    /\ eret = [e \in Execs |-> "none"]
    /\ erec = [e \in Execs |-> 0]
    /\ spawned = 0
    /\ calls = [e \in Execs |-> 0]

\* ------------------------------------------------ ClaudeExecutor.execute
RECURSIVE SumCalls(_, _)
SumCalls(f, S) ==
    IF S = {} THEN 0
    ELSE LET e == CHOOSE x \in S : TRUE IN f[e] + SumCalls(f, S \ {e})

\* The pre-budget test with > for >=.
PreBudgetExceededStrict(total, budget) == total > budget

\* The tests of the two budget checks.
PreBudgetExceeded(total, budget) == total >= budget
PostBudgetExceeded(newTotal, budget) == newTotal > budget

\* execute({sessionId, maxBudgetUsd: Budget, ...}): sessionStore.get has
\* read the file.  Spent up: budget_exceeded is returned.  Else the command
\* line is built and the child is spawned.
ExecPre(e) ==
    /\ epc[e] = "idle"
    /\ SumCalls(calls, Execs) < MaxCalls
    /\ calls' = [calls EXCEPT ![e] = @ + 1]
    /\ sess' = dbRead(sess)
    /\ erec' = [erec EXCEPT ![e] = 0]
    /\ ecost' = [ecost EXCEPT ![e] = 0]
    /\ IF PreBudgetExceeded(sess.disk.total_cost_usd, Budget)
       THEN /\ eret' = [eret EXCEPT ![e] = "budget_pre"]
            /\ UNCHANGED <<epc, spawned>>
       ELSE /\ eret' = [eret EXCEPT ![e] = "none"]
            /\ epc' = [epc EXCEPT ![e] = "child"]
            /\ spawned' = spawned + 1
    /\ UNCHANGED stats

\* The child exits with code 0 and a JSON result of cost c; the post-budget
\* check calls sessionStore.get.
ExecChildOk(e, c) ==
    /\ epc[e] = "child"
    /\ ecost' = [ecost EXCEPT ![e] = c]
    /\ epc' = [epc EXCEPT ![e] = "post"]
    /\ UNCHANGED <<sess, stats, eret, erec, spawned, calls>>

\* The child fails (exit code, spawn error, unparsable output): the catch
\* block calls recordRequest({success: false}).
ExecChildFail(e) ==
    /\ epc[e] = "child"
    /\ ~stats.lock
    /\ stats' = withLockOp(stats, recordRequest(stats.mem, FALSE))
    /\ erec' = [erec EXCEPT ![e] = @ + 1]
    /\ epc' = [epc EXCEPT ![e] = "failWrite"]
    /\ UNCHANGED <<sess, ecost, eret, spawned, calls>>

ExecFailCommit(e) ==
    /\ epc[e] = "failWrite"
    /\ stats' = withLockCommit(stats)
    /\ eret' = [eret EXCEPT ![e] = "error"]
    /\ epc' = [epc EXCEPT ![e] = "idle"]
    /\ UNCHANGED <<sess, ecost, erec, spawned, calls>>

\* The post-budget check: sessionStore.get has read the file.  Over budget
\* with this cost: budget_exceeded is returned.  Else recordRequest is next.
ExecPost(e) ==
    /\ epc[e] = "post"
    /\ sess' = dbRead(sess)
    /\ IF PostBudgetExceeded(sess.disk.total_cost_usd + ecost[e], Budget)
       THEN /\ eret' = [eret EXCEPT ![e] = "budget_post"]
            /\ epc' = [epc EXCEPT ![e] = "idle"]
       ELSE /\ epc' = [epc EXCEPT ![e] = "rec"]
            /\ UNCHANGED eret
    /\ UNCHANGED <<stats, ecost, erec, spawned, calls>>

\* statsStore.recordRequest({success: true, ...}) under the stats lock.
ExecRecOp(e) ==
    /\ epc[e] = "rec"
    /\ ~stats.lock
    /\ stats' = withLockOp(stats, recordRequest(stats.mem, TRUE))
    /\ erec' = [erec EXCEPT ![e] = @ + 1]
    /\ epc' = [epc EXCEPT ![e] = "recWrite"]
    /\ UNCHANGED <<sess, ecost, eret, spawned, calls>>

ExecRecCommit(e) ==
    /\ epc[e] = "recWrite"
    /\ stats' = withLockCommit(stats)
    /\ epc' = [epc EXCEPT ![e] = "add"]
    /\ UNCHANGED <<sess, ecost, eret, erec, spawned, calls>>

\* sessionStore.addCost(sessionId, costUsd) under the sessions lock.
ExecAddOp(e) ==
    /\ epc[e] = "add"
    /\ ~sess.lock
    /\ sess' = withLockOp(sess, addCost(sess.mem, ecost[e]))
    /\ epc' = [epc EXCEPT ![e] = "addWrite"]
    /\ UNCHANGED <<stats, ecost, eret, erec, spawned, calls>>

ExecAddCommit(e) ==
    /\ epc[e] = "addWrite"
    /\ sess' = withLockCommit(sess)
    /\ epc' = [epc EXCEPT ![e] = "inc"]
    /\ UNCHANGED <<stats, ecost, eret, erec, spawned, calls>>

\* sessionStore.incrementMessages(sessionId) under the sessions lock.
ExecIncOp(e) ==
    /\ epc[e] = "inc"
    /\ ~sess.lock
    /\ sess' = withLockOp(sess, incrementMessages(sess.mem))
    /\ epc' = [epc EXCEPT ![e] = "incWrite"]
    /\ UNCHANGED <<stats, ecost, eret, erec, spawned, calls>>

\* The write is on disk; execute returns {success: true, cost_usd, ...}.
ExecIncCommit(e) ==
    /\ epc[e] = "incWrite"
    /\ sess' = withLockCommit(sess)
    /\ eret' = [eret EXCEPT ![e] = "ok"]
    /\ epc' = [epc EXCEPT ![e] = "idle"]
    /\ UNCHANGED <<stats, ecost, erec, spawned, calls>>

\* ------------------------------ BaseStore shared by several processes
\* Each process (the server, a control tool) has its own store instance:
\* its own db.data, the same file and the same lock file.  The document is
\* the set of items written; the operation of process p number n adds <<p, n>>.
Procs == 1..MaxProcs
NoProc == 0

\* BaseStore.init of every process has read the (empty) file.
InitProc ==
    /\ fdisk = {}
    /\ flock = NoProc
    /\ pmem = [p \in Procs |-> {}]
    /\ pwbuf = [p \in Procs |-> {}]
    /\ ppc = [p \in Procs |-> "idle"]
    /\ pops = [p \in Procs |-> 0]
    /\ committed = {}
    /\ failed = {}

\* The item process p writes in the operation it is in.
ProcItem(p) == <<p, pops[p]>>

\* withLock of process p: acquireLock creates the lock file (flag 'wx'
\* fails while it exists), the operation changes db.data, db.write() is
\* called.
ProcLockedOp(p) ==
    /\ ppc[p] = "idle"
    /\ pops[p] < MaxOps
    /\ flock = NoProc
    /\ flock' = p
    /\ pops' = [pops EXCEPT ![p] = @ + 1]
    /\ pmem' = [pmem EXCEPT ![p] = @ \cup {<<p, pops[p] + 1>>}]
    /\ pwbuf' = [pwbuf EXCEPT ![p] = pmem'[p]]
    /\ ppc' = [ppc EXCEPT ![p] = "write"]
    /\ UNCHANGED <<fdisk, committed, failed>>

\* db.write() succeeds: the file holds the document; finally: releaseLock
\* removes the lock file (it holds p's lock id); withLock returns.
ProcCommit(p) ==
    /\ ppc[p] = "write"
    /\ fdisk' = pwbuf[p]
    /\ flock' = IF flock = p THEN NoProc ELSE flock
    /\ committed' = committed \cup {ProcItem(p)}
    /\ ppc' = [ppc EXCEPT ![p] = "idle"]
    /\ UNCHANGED <<pmem, pwbuf, pops, failed>>

\* db.write() rejects (disk full, permissions): finally: releaseLock; the
\* error reaches the caller.  db.data keeps what the operation did to it.
ProcWriteFail(p) ==
    /\ ppc[p] = "write"
    /\ flock' = IF flock = p THEN NoProc ELSE flock
    /\ failed' = failed \cup {ProcItem(p)}
    /\ ppc' = [ppc EXCEPT ![p] = "idle"]
    /\ UNCHANGED <<fdisk, pmem, pwbuf, pops, committed>>

\* A read method of process p's store (get, list): db.read().
ProcRead(p) ==
    /\ ppc[p] = "idle"
    /\ pmem[p] # fdisk
    /\ pmem' = [pmem EXCEPT ![p] = fdisk]
    /\ UNCHANGED <<fdisk, flock, pwbuf, ppc, pops, committed, failed>>

ProcStep(p) ==
    ProcLockedOp(p) \/ ProcCommit(p) \/ ProcWriteFail(p) \/ ProcRead(p)

\* The lock file exists without a lock id in it.
TornLock == MaxProcs + 1

\* acquireLock's writeFileSync(lockFilePath, lockId, {flag: 'wx'}) creates
\* the file and then fails to write the id (disk full): the error is not
\* EEXIST, so acquireLock and withLock throw; the file is not removed.
\* The process of p terminates inside withLock, between acquireLock and
\* releaseLock.  No code of it runs any more; the lock file stays.
ProcCrash(p) ==
    /\ ppc[p] = "write"
    /\ ppc' = [ppc EXCEPT ![p] = "dead"]
    /\ UNCHANGED <<fdisk, flock, pmem, pwbuf, pops, committed, failed>>

\* withLock of process p while the lock file exists: acquireLock retries
\* every 50 ms for 5 s and throws 'Failed to acquire lock: timeout'.
ProcAcquireTimeout(p) ==
    /\ ppc[p] = "idle"
    /\ pops[p] < MaxOps
    /\ flock # NoProc
    /\ pops' = [pops EXCEPT ![p] = @ + 1]
    /\ failed' = failed \cup {<<p, pops[p] + 1>>}
    /\ UNCHANGED <<fdisk, flock, pmem, pwbuf, ppc, committed>>

ProcAcquireFail(p) ==
    /\ ppc[p] = "idle"
    /\ pops[p] < MaxOps
    /\ flock = NoProc
    /\ flock' = TornLock
    /\ pops' = [pops EXCEPT ![p] = @ + 1]
    /\ UNCHANGED <<fdisk, pmem, pwbuf, ppc, committed, failed>>

\* ------------------------------ StatsStore.recordRequest, N at a time
Recs == 1..MaxRecs

InitRecs == rpc = [i \in Recs |-> "idle"]

\* recordRequest number i gets the lock, counts in db.data, calls db.write().
StatRecOp(i, success) ==
    /\ rpc[i] = "idle"
    /\ ~stats.lock
    /\ stats' = withLockOp(stats, recordRequest(stats.mem, success))
    /\ rpc' = [rpc EXCEPT ![i] = "write"]

\* Its write is in the file, the lock is released, the call returns.
StatRecCommit(i) ==
    /\ rpc[i] = "write"
    /\ stats' = withLockCommit(stats)
    /\ rpc' = [rpc EXCEPT ![i] = "done"]

\* getSummary / getDaily (GET /api/statistics/...): db.read().
StatsRead ==
    /\ stats.mem # stats.disk
    /\ stats' = dbRead(stats)
    /\ UNCHANGED rpc

\* ------------------------------------------------ WebhookNotifier.notify
\* Webhooks are enabled and a URL is configured.
DefaultRetries == 3
BackoffBase == 1000
BackoffCap == 10000

\* The values config.webhook.retries takes; Unset is the absent option.
Unset == -1
RetriesCfg == {Unset} \cup (0..MaxRetriesCfg)

RECURSIVE Pow2(_)
Pow2(n) == IF n = 0 THEN 1 ELSE 2 * Pow2(n - 1)

\* Math.min(1000 * Math.pow(2, attempt - 1), 10000)
backoffDelay(attempt) ==
    IF BackoffBase * Pow2(attempt - 1) < BackoffCap
    THEN BackoffBase * Pow2(attempt - 1)
    ELSE BackoffCap

\* config.webhook?.retries || 3
maxRetriesOf(r) == IF r = Unset \/ r = 0 THEN DefaultRetries ELSE r

NoReturn == [success |-> FALSE, reason |-> "none", attempt |-> 0]

InitHook ==
    /\ hpc = "new"
    /\ hcfg = Unset
    /\ hmax = 0
    /\ hattempt = 0
    /\ hposts = 0
    /\ hwaited = <<>>
    /\ hret = NoReturn

\* new WebhookNotifier(config)
HookConstruct(r) ==
    /\ hpc = "new"
    /\ hcfg' = r
    /\ hmax' = maxRetriesOf(r)
    /\ hpc' = "idle"
    /\ UNCHANGED <<hattempt, hposts, hwaited, hret>>

\* The end of notify's for loop: the next attempt's axios.post, or, with
\* the attempts used up, the max_retries_exceeded result.
hookLoop(attempt) ==
    IF attempt <= hmax
    THEN /\ hpc' = "post"
         /\ hposts' = hposts + 1
         /\ UNCHANGED hret
    ELSE /\ hpc' = "done"
         /\ hret' = [success |-> FALSE, reason |-> "max_retries_exceeded",
                     attempt |-> hmax]
         /\ UNCHANGED hposts

\* notify(event, data): the loop starts with attempt = 1.
HookNotify ==
    /\ hpc = "idle"
    /\ hattempt' = 1
    /\ hookLoop(1)
    /\ UNCHANGED <<hcfg, hmax, hwaited>>

\* axios.post resolves with a 2xx status.
HookPostOk ==
    /\ hpc = "post"
    /\ hret' = [success |-> TRUE, reason |-> "none", attempt |-> hattempt]
    /\ hpc' = "done"
    /\ UNCHANGED <<hcfg, hmax, hattempt, hposts, hwaited>>

\* axios.post rejects (network error, timeout, or a non-2xx status, which
\* axios rejects by default): the catch block; before the last attempt
\* the backoff timer is awaited.
HookPostFail ==
    /\ hpc = "post"
    /\ IF hattempt < hmax
       THEN /\ hwaited' = Append(hwaited, backoffDelay(hattempt))
            /\ hpc' = "wait"
            /\ UNCHANGED <<hattempt, hposts, hret>>
       ELSE /\ hattempt' = hattempt + 1
            /\ hookLoop(hattempt + 1)
            /\ UNCHANGED hwaited
    /\ UNCHANGED <<hcfg, hmax>>

\* The backoff timer fires: attempt++ and the loop goes on.
HookWaitDone ==
    /\ hpc = "wait"
    /\ hattempt' = hattempt + 1
    /\ hookLoop(hattempt + 1)
    /\ UNCHANGED <<hcfg, hmax, hwaited>>

HookStep ==
    \/ \E r \in RetriesCfg : HookConstruct(r)
    \/ HookNotify \/ HookPostOk \/ HookPostFail \/ HookWaitDone

\* ------------------------------------------- configuration and hot reload
DefaultConcurrency == 3
Reloads == 1..MaxReloads
ConcValues == 0..MaxConc
OptValues == {"true", "false", "absent"}

\* `x || 3` of the constructor and of hotReloadConfig.
concurrencyOf(c) == IF c = 0 THEN DefaultConcurrency ELSE c

\* spawnCommand's test `enableRootCompatibility !== false`.
setsSandbox(opt) == opt # "false"

\* main() has loaded config.json and constructed the queue with the
\* configured cap.
InitConfigAny ==
    /\ fconc = InitConcurrency
    /\ fopt \in OptValues
    /\ isRoot \in BOOLEAN
    /\ cconc = fconc
    /\ copt = fopt
    /\ rtimer = FALSE
    /\ rl = [r \in Reloads |-> [pc |-> "idle", conc |-> 0, opt |-> "absent"]]
    /\ edits = 0
    /\ envlog = {}

\* The default configuration, which has no enableRootCompatibility key, and
\* a non-root user.
InitConfig == InitConfigAny /\ fopt = "absent" /\ ~isRoot

\* config.json is rewritten and the watcher's 'change' callback re-arms
\* the debounce timer.
ConfigEdit(c, o) ==
    /\ edits < MaxEdits
    /\ <<c, o>> # <<fconc, fopt>>
    /\ fconc' = c
    /\ fopt' = o
    /\ rtimer' = TRUE
    /\ edits' = edits + 1
    /\ UNCHANGED <<cconc, copt, isRoot, rl, envlog, concurrency>>

\* The debounce timer fires: hotReloadConfig calls loadConfig, which reads
\* and parses the file and suspends in the path detection.
DebounceFire(r) ==
    /\ rtimer
    /\ rl[r].pc = "idle"
    /\ \A q \in Reloads : q < r => rl[q].pc # "idle"
    /\ rl' = [rl EXCEPT ![r] = [pc |-> "load", conc |-> fconc, opt |-> fopt]]
    /\ rtimer' = FALSE
    /\ UNCHANGED <<fconc, fopt, cconc, copt, isRoot, edits, envlog, concurrency>>

\* loadConfig returns: the queue's cap is replaced when the loaded value
\* differs from the live config's, then Object.assign(config, newConfig),
\* which keeps a key the new file no longer has.
ReloadApply(r) ==
    /\ rl[r].pc = "load"
    /\ concurrency' = IF rl[r].conc # cconc THEN concurrencyOf(rl[r].conc)
                      ELSE concurrency
    /\ cconc' = rl[r].conc
    /\ copt' = IF rl[r].opt = "absent" THEN copt ELSE rl[r].opt
    /\ rl' = [rl EXCEPT ![r] = [pc |-> "idle", conc |-> 0, opt |-> "absent"]]
    /\ UNCHANGED <<fconc, fopt, isRoot, rtimer, edits, envlog>>

\* spawnCommand builds the child's environment from the live config.
spawnCommand ==
    /\ envlog' = envlog \cup
           {[opt |-> copt, root |-> isRoot, sandbox |-> setsSandbox(copt)]}
    /\ UNCHANGED <<fconc, fopt, cconc, copt, isRoot, rtimer, rl, edits,
                   concurrency>>

ConfigStep ==
    \/ \E c \in ConcValues, o \in OptValues : ConfigEdit(c, o)
    \/ \E r \in Reloads : DebounceFire(r) \/ ReloadApply(r)
    \/ spawnCommand

ReloadQuiet == ~rtimer /\ \A r \in Reloads : rl[r].pc = "idle"

\* ------------------------------------------------- shutdown and stop()
Signals == 1..MaxSignals

InitShutdown ==
    /\ sigs = 0
    /\ shpc = [k \in Signals |-> "idle"]
    /\ capArmed = FALSE
    /\ capFired = FALSE
    /\ latePoll = FALSE
    /\ wdog = [k \in Signals |-> FALSE]
    /\ exited = "no"

\* shutdown after `await taskQueue.stop()`: server.close is called and
\* the forced-exit timer is armed.
afterStop(k) ==
    /\ shpc' = [shpc EXCEPT ![k] = "closing"]
    /\ wdog' = [wdog EXCEPT ![k] = TRUE]

\* A signal: shutdown closes the watcher, stops the collector and calls
\* stop().  stop() returns at once when the queue is not running; else it
\* clears `running` and the tick, arms its 10 s timer and enters the drain
\* loop, which it leaves at once when no task is active.
Signal ==
    /\ sigs < MaxSignals
    /\ sigs' = sigs + 1
    /\ IF ~running
       THEN /\ afterStop(sigs + 1)
            /\ UNCHANGED <<running, timerOn, capArmed>>
       ELSE /\ running' = FALSE
            /\ timerOn' = FALSE
            /\ IF active = {}
               THEN /\ afterStop(sigs + 1)
                    /\ UNCHANGED capArmed
               ELSE /\ shpc' = [shpc EXCEPT ![sigs + 1] = "drain"]
                    /\ capArmed' = TRUE
                    /\ UNCHANGED wdog
    /\ UNCHANGED <<capFired, latePoll, exited>>

\* stop()'s 10 s timer fires: a warning is logged when tasks are active.
StopCapFire ==
    /\ capArmed
    /\ capArmed' = FALSE
    /\ capFired' = TRUE
    /\ UNCHANGED <<running, timerOn, sigs, shpc, latePoll, wdog, exited>>

\* The drain loop's 100 ms wait ends and `activeTasks.size > 0` is tested
\* again; when it is false the timer is cleared and stop() returns.
StopPoll(k) ==
    /\ shpc[k] = "drain"
    /\ latePoll' = (latePoll \/ capFired)
    /\ IF active = {}
       THEN /\ capArmed' = FALSE
            /\ afterStop(k)
       ELSE UNCHANGED <<capArmed, shpc, wdog>>
    /\ UNCHANGED <<running, timerOn, sigs, capFired, exited>>

\* server.close's callback: every connection has ended.
ServerClosed(k) ==
    /\ shpc[k] = "closing"
    /\ exited' = "code0"
    /\ UNCHANGED <<running, timerOn, sigs, shpc, capArmed, capFired,
                   latePoll, wdog>>

\* The forced-exit timer fires.
WatchdogFire(k) ==
    /\ wdog[k]
    /\ exited' = "code1"
    /\ UNCHANGED <<running, timerOn, sigs, shpc, capArmed, capFired,
                   latePoll, wdog>>

ShutdownTimers == StopCapFire \/ \E k \in Signals : StopPoll(k) \/ WatchdogFire(k)

ShutdownStep ==
    \/ Signal
    \/ ShutdownTimers
    \/ \E k \in Signals : ServerClosed(k)

\* ------------------------------------------------- sessions and retention
SessIds == 1..MaxSessions
NoSession == [present |-> FALSE, age |-> 0]

InitSessions == sessions = [s \in SessIds |-> NoSession]

\* sessionStore.cleanup(retentionDays): keeps the sessions whose updated_at
\* is later than now minus retentionDays.
cleanup(doc, retentionDays) ==
    [s \in SessIds |-> IF doc[s].present /\ doc[s].age < retentionDays
                        THEN doc[s] ELSE NoSession]

\* sessionStore.create: updated_at = now.
createSession(s) ==
    /\ ~sessions[s].present
    /\ sessions' = [sessions EXCEPT ![s] = [present |-> TRUE, age |-> 0]]

\* sessionStore.update (continueSession, updateSessionStatus): updated_at = now.
updateSession(s) ==
    /\ sessions[s].present
    /\ sessions[s].age > 0
    /\ sessions' = [sessions EXCEPT ![s].age = 0]

\* DELETE /api/sessions/:id.
deleteSession(s) ==
    /\ sessions[s].present
    /\ sessions' = [sessions EXCEPT ![s] = NoSession]

\* A day passes while the server runs.
DayPasses ==
    /\ \E s \in SessIds : sessions[s].present /\ sessions[s].age < MaxAge
    /\ sessions' = [s \in SessIds |->
                      IF sessions[s].present /\ sessions[s].age < MaxAge
                      THEN [sessions[s] EXCEPT !.age = @ + 1]
                      ELSE sessions[s]]

\* SessionManager.cleanupExpiredSessions.  No timer, route or start-up code
\* of the server calls it, so no specification takes this step.
cleanupExpiredSessions ==
    sessions' = cleanup(sessions, RetentionDays)

SessionStep ==
    \/ \E s \in SessIds : createSession(s) \/ updateSession(s) \/ deleteSession(s)
    \/ DayPasses

Expired(s) == sessions[s].present /\ sessions[s].age > RetentionDays

\* ----------------------------------------- executeTask's webhook delivery
\* How a call of sendCustomNotification / notifyTaskCompleted /
\* notifyTaskFailed ends: notify returns {success: true} or {success: false}
\* (disabled, no_url, max_retries_exceeded); it has no throwing exit.
notifyOutcomesThrowing == {"ok", "failed", "threw"}
notifyOutcomes == {"ok", "failed"}

InitNotify == whook = [w \in Workers |-> "none"]

\* The awaited webhook call of executeTask's try block is over.  A returned
\* result is ignored and `finally` runs; a rejection would enter the catch
\* block, which calls markFailed.
WebhookReturn(w, o) ==
    /\ wpc[w] = "notify"
    /\ whook' = [whook EXCEPT ![w] = IF o = "ok" THEN "ok" ELSE "failed"]
    /\ IF o = "threw"
       THEN /\ wres' = [wres EXCEPT ![w] = "fail"]
            /\ wpc' = [wpc EXCEPT ![w] = "doneGet"]
            /\ UNCHANGED <<storeVars, schedVars, active, wtask, wtimer,
                           startVars, cancelVars, addVars, histVars>>
       ELSE ExecFinally(w)

\* processQueue and executeTask up to the webhook call.
RunToNotify(w) ==
    \/ PQStart(w) \/ PQFetch(w) \/ PQMarkOp(w) \/ PQMarkCommit(w)
    \/ \E res \in {"ok", "fail"} : ExecReturn(w, res)
    \/ DoneGet(w) \/ DoneOp(w) \/ DoneCommit(w)

\* ------------------------------------------ execute calls that succeeded
InitAttr == okCount = 0 /\ okCost = 0

\* The step in which execute returns {success: true, cost_usd}: the write
\* of incrementMessages is on disk.
ReturnsSuccess(e) == epc[e] = "incWrite" /\ eret'[e] = "ok"

\* ------------------------------------------- POST /api/sessions/:id/continue
Reqs == 1..MaxReqs
Statuses == {"active", "archived", "closed"}
NoAnswer == 0
NoRequest ==
    [pc |-> "idle", sid |-> 1, seen |-> "none", ran |-> FALSE, code |-> NoAnswer]

InitRoute ==
    /\ sstat = [s \in SessIds |-> "absent"]
    /\ rq = [r \in Reqs |-> NoRequest]

\* POST /api/sessions, PATCH /api/sessions/:id/status, DELETE /api/sessions/:id.
RouteCreate(s) ==
    /\ sstat[s] = "absent"
    /\ sstat' = [sstat EXCEPT ![s] = "active"]
    /\ UNCHANGED rq

RouteStatus(s, st) ==
    /\ sstat[s] \notin {"absent", st}
    /\ sstat' = [sstat EXCEPT ![s] = st]
    /\ UNCHANGED rq

RouteDelete(s) ==
    /\ sstat[s] # "absent"
    /\ sstat' = [sstat EXCEPT ![s] = "absent"]
    /\ UNCHANGED rq

\* The route handler: an invalid body is answered 400; else continueSession
\* is called, which suspends in sessionStore.get.
ContinueRequest(r, s, valid) ==
    /\ rq[r].pc = "idle" /\ rq[r].code = NoAnswer
    /\ \A q \in Reqs : q < r => rq[q] # NoRequest
    /\ rq' = [rq EXCEPT ![r] =
                IF valid THEN [NoRequest EXCEPT !.pc = "get", !.sid = s]
                ELSE [NoRequest EXCEPT !.pc = "done", !.sid = s, !.code = 400]]
    /\ UNCHANGED sstat

\* sessionStore.get returns.  No session, or one that is not active:
\* continueSession returns {success: false, error} and the route answers
\* 500.  Else claudeExecutor.execute is called.
ContinueGet(r) ==
    /\ rq[r].pc = "get"
    /\ LET st == sstat[rq[r].sid] IN
         rq' = [rq EXCEPT ![r] =
                  IF st # "active"
                  THEN [@ EXCEPT !.pc = "done", !.seen = st, !.code = 500]
                  ELSE [@ EXCEPT !.pc = "exec", !.seen = st, !.ran = TRUE]]
    /\ UNCHANGED sstat

\* execute returns: result.success answers 200, else 500.
ContinueReturn(r, ok) ==
    /\ rq[r].pc = "exec"
    /\ rq' = [rq EXCEPT ![r] =
                [@ EXCEPT !.pc = "done", !.code = IF ok THEN 200 ELSE 500]]
    /\ UNCHANGED sstat

RouteStep ==
    \/ \E s \in SessIds : RouteCreate(s) \/ RouteDelete(s)
    \/ \E s \in SessIds, st \in Statuses : RouteStatus(s, st)
    \/ \E r \in Reqs, s \in SessIds, valid \in BOOLEAN : ContinueRequest(r, s, valid)
    \/ \E r \in Reqs : ContinueGet(r)
    \/ \E r \in Reqs, ok \in BOOLEAN : ContinueReturn(r, ok)

\* ------------------------------------------------ markProcessing failures
InitMarkFail == mfail = {}

\* db.write() rejects inside withLock: the lock file is removed, the file
\* is as it was, db.data keeps the operation's change.
WriteFail ==
    /\ lock
    /\ lock' = FALSE
    /\ wbuf' = getDefaultData
    /\ UNCHANGED <<disk, mem>>

\* processQueue's catch block: the id leaves activeTasks and the call
\* returns without executeTask.
markFailedCatch(w) ==
    /\ active' = active \ {wtask[w]}
    /\ mfail' = mfail \cup {wtask[w]}
    /\ wpc' = [wpc EXCEPT ![w] = "idle"]
    /\ wtask' = [wtask EXCEPT ![w] = NoTask]
    /\ UNCHANGED <<created, schedVars, wres, wtimer, startVars, cancelVars,
                   addVars, histVars>>

\* markProcessing rejects because acquireLock timed out: another
\* operation held the lock file for 5 seconds.
PQMarkLockTimeout(w) ==
    /\ wpc[w] = "mark"
    /\ lock
    /\ UNCHANGED <<disk, mem, wbuf, lock>>
    /\ markFailedCatch(w)

\* markProcessing rejects because its db.write() failed.
PQMarkWriteFail(w) ==
    /\ wpc[w] = "markWrite"
    /\ WriteFail
    /\ markFailedCatch(w)

\* ------------------------------------------- hot reload of defaultTimeout
DefaultTimeout == 300000
TimeoutValues == 0..MaxTimeoutCfg

\* `x || 300000` of the constructor and of hotReloadConfig.
timeoutOf(t) == IF t = 0 THEN DefaultTimeout ELSE t

InitTimeoutCfg ==
    /\ ftime = InitTimeout
    /\ ctime = ftime
    /\ qtimeout = timeoutOf(ftime)
    /\ rlt = [r \in Reloads |-> 0]

\* config.json is rewritten with a concurrency and a defaultTimeout; the
\* watcher's 'change' callback re-arms the debounce timer.
TaskQueueEdit(c, t) ==
    /\ edits < MaxEdits
    /\ <<c, t>> # <<fconc, ftime>>
    /\ fconc' = c
    /\ ftime' = t
    /\ rtimer' = TRUE
    /\ edits' = edits + 1
    /\ UNCHANGED <<fopt, cconc, copt, isRoot, rl, envlog, concurrency, ctime,
                   qtimeout, rlt>>

\* The debounce timer fires; loadConfig reads the file.
TimeoutDebounceFire(r) ==
    /\ DebounceFire(r)
    /\ rlt' = [rlt EXCEPT ![r] = ftime]
    /\ UNCHANGED <<ftime, ctime, qtimeout>>

\* loadConfig returns: inside the test for a changed concurrency the
\* queue's concurrency and defaultTimeout are assigned; a changed
\* defaultTimeout alone is logged; Object.assign(config, newConfig).
TimeoutReloadApply(r) ==
    /\ ReloadApply(r)
    /\ qtimeout' = IF rl[r].conc # cconc THEN timeoutOf(rlt[r]) ELSE qtimeout
    /\ ctime' = rlt[r]
    /\ rlt' = [rlt EXCEPT ![r] = 0]
    /\ UNCHANGED ftime

\* --------------------------------------- hot reload of webhook settings

\* The constructor caches config.webhook.enabled (|| false) in
\* this.enabled and keeps the config object in this.config.
InitWebhookCfg ==
    /\ fwh = FALSE
    /\ cwh = fwh
    /\ nenabled = cwh
    /\ ncfg = cwh
    /\ rlw = [r \in Reloads |-> FALSE]
    /\ nret = "none"
    /\ nposts = 0

\* config.json is rewritten with a concurrency and a webhook.enabled; the
\* watcher's 'change' callback re-arms the debounce timer.
WebhookEdit(c, b) ==
    /\ edits < MaxEdits
    /\ <<c, b>> # <<fconc, fwh>>
    /\ fconc' = c
    /\ fwh' = b
    /\ rtimer' = TRUE
    /\ edits' = edits + 1
    /\ UNCHANGED <<fopt, cconc, copt, isRoot, rl, envlog, concurrency, cwh,
                   nenabled, ncfg, rlw, nret, nposts>>

\* The debounce timer fires; loadConfig reads the file.
WebhookDebounceFire(r) ==
    /\ DebounceFire(r)
    /\ rlw' = [rlw EXCEPT ![r] = fwh]
    /\ UNCHANGED <<fwh, cwh, nenabled, ncfg, nret, nposts>>

\* loadConfig returns: when webhook.enabled differs from the live config's,
\* webhookNotifier.config is pointed at newConfig; the fields cached by the
\* constructor are not assigned.  Then Object.assign(config, newConfig).
WebhookReloadApply(r) ==
    /\ ReloadApply(r)
    /\ ncfg' = IF rlw[r] # cwh THEN rlw[r] ELSE ncfg
    /\ cwh' = rlw[r]
    /\ rlw' = [rlw EXCEPT ![r] = FALSE]
    /\ UNCHANGED <<fwh, nenabled, nret, nposts>>

\* notify with a url: `if (!this.enabled) return {reason: 'disabled'}`,
\* else the payload is posted.
NotifyCall(ok) ==
    /\ nposts < MaxNotifies
    /\ IF ~nenabled
       THEN nret' = "disabled" /\ nposts' = nposts
       ELSE /\ nret' = IF ok THEN "ok" ELSE "max_retries_exceeded"
            /\ nposts' = nposts + 1
    /\ UNCHANGED <<cfgVars, concurrency, fwh, cwh, nenabled, ncfg, rlw>>

\* ------------------------------- the watcher's debounce and the agent path
DEBOUNCE_DELAY == 500
PathValues == {"startup", "other", "invalid"}
StartupPath == "startup"

\* detectClaudePath: a configured path that is executable is kept; else
\* `which claude` finds the installed agent.
detectClaudePath(existingPath) ==
    IF existingPath \in {"startup", "other"} THEN existingPath
    ELSE StartupPath

\* The 'change' callback with the timer armed or not and the ms left on it:
\* the timer keeps its deadline.
rearmKeep(armed, left) == IF armed THEN left ELSE DEBOUNCE_DELAY

\* The 'change' callback: clearTimeout(reloadTimer), then
\* setTimeout(..., DEBOUNCE_DELAY).
rearm(armed, left) == DEBOUNCE_DELAY

NoFire == [quiet |-> DEBOUNCE_DELAY, file |-> <<0, "none">>,
           read |-> <<0, "none">>]

InitDebounce ==
    /\ tleft = 0
    /\ quiet = DEBOUNCE_DELAY
    /\ bursts = 0
    /\ nreloads = 0
    /\ lastFire = NoFire
    /\ fcp = StartupPath
    /\ ccp = fcp
    /\ rlp = [r \in Reloads |-> "none"]
    /\ spawnedPath = "none"

\* fs.watch delivers a 'change' event to the callback.
changeEvent ==
    /\ rtimer' = TRUE
    /\ tleft' = rearm(rtimer, tleft)
    /\ bursts' = IF quiet < DEBOUNCE_DELAY THEN bursts ELSE bursts + 1
    /\ quiet' = 0

\* config.json is rewritten with a concurrency and a claudePath.
WatchEdit(c, p) ==
    /\ edits < MaxEdits
    /\ <<c, p>> # <<fconc, fcp>>
    /\ fconc' = c
    /\ fcp' = p
    /\ edits' = edits + 1
    /\ changeEvent
    /\ UNCHANGED <<fopt, cconc, copt, isRoot, rl, envlog, concurrency,
                   nreloads, lastFire, ccp, rlp, spawnedPath>>

\* TickMs of time pass.
TimePasses ==
    /\ quiet < DEBOUNCE_DELAY \/ tleft > 0
    /\ tleft' = IF tleft > TickMs THEN tleft - TickMs ELSE 0
    /\ quiet' = IF quiet + TickMs < DEBOUNCE_DELAY THEN quiet + TickMs
                ELSE DEBOUNCE_DELAY
    /\ UNCHANGED <<cfgVars, concurrency, bursts, nreloads, lastFire, fcp, ccp,
                   rlp, spawnedPath>>

\* The debounce timer is due and fires: hotReloadConfig calls loadConfig,
\* which reads the file (readFileSync) and suspends in the path detection.
WatchTimerFire(r) ==
    /\ tleft = 0
    /\ DebounceFire(r)
    /\ rlp' = [rlp EXCEPT ![r] = fcp]
    /\ nreloads' = nreloads + 1
    /\ lastFire' = [quiet |-> quiet, file |-> <<fconc, fcp>>,
                    read |-> <<rl'[r].conc, rlp'[r]>>]
    /\ UNCHANGED <<tleft, quiet, bursts, fcp, ccp, spawnedPath>>

\* The path detection returns.  When it replaced a path, loadConfig writes
\* the configuration it read back to config.json, which the watcher
\* reports.  Then hotReloadConfig applies newConfig and
\* Object.assign(config, newConfig) replaces the live claudePath.
WatchReloadApply(r) ==
    /\ rl[r].pc = "load"
    /\ concurrency' = IF rl[r].conc # cconc THEN concurrencyOf(rl[r].conc)
                      ELSE concurrency
    /\ cconc' = rl[r].conc
    /\ copt' = IF rl[r].opt = "absent" THEN copt ELSE rl[r].opt
    /\ ccp' = detectClaudePath(rlp[r])
    /\ rl' = [rl EXCEPT ![r] = [pc |-> "idle", conc |-> 0, opt |-> "absent"]]
    /\ rlp' = [rlp EXCEPT ![r] = "none"]
    /\ IF detectClaudePath(rlp[r]) # rlp[r]
       THEN /\ fconc' = rl[r].conc
            /\ fopt' = rl[r].opt
            /\ fcp' = detectClaudePath(rlp[r])
            /\ changeEvent
       ELSE UNCHANGED <<fconc, fopt, fcp, rtimer, tleft, bursts, quiet>>
    /\ UNCHANGED <<isRoot, edits, envlog, nreloads, lastFire, spawnedPath>>

\* spawnCommand: spawn(this.config.claudePath, args, ...), where
\* this.config is the live config object.
SpawnAgent ==
    /\ spawnedPath' = ccp
    /\ UNCHANGED <<cfgVars, concurrency, tleft, quiet, bursts, nreloads,
                   lastFire, fcp, ccp, rlp>>

\* -------------------------------------------------- cancelTask requests
NoCancel == [task |-> NoTask, was |-> "none"]

InitCancelReq == creq = NoCancel

\* The status cancelTask's taskStore.get finds for the id.
statusFound(doc, t) == IF Exists(doc, t) THEN doc[t].status ELSE "absent"

\* cancelTask(t) up to the return of its status check or to the call of
\* taskStore.cancel.
CancelRequest(t) ==
    /\ CancelGet(t)
    /\ creq' = [task |-> t, was |-> statusFound(disk, t)]

\* ----------------------------------------------- the queue's task events
InitEvents == events = [t \in Tasks |-> <<>>]

\* What this step emits for task t.  executeTask emits taskCompleted or
\* taskFailed when markCompleted/markFailed has returned (the record or
\* null); the timeout handler emits taskFailed when its markFailed has
\* returned; cancelTask emits taskCancelled when taskStore.cancel returned
\* the record.
emitted(t) ==
    IF \E w \in Workers : /\ wtask[w] = t
                          /\ wpc[w] \in {"doneGet", "doneWrite"}
                          /\ wpc'[w] = "notify"
                          /\ wres[w] = "ok"
    THEN <<"taskCompleted">>
    ELSE IF \/ \E w \in Workers : /\ wtask[w] = t
                                  /\ wpc[w] \in {"doneGet", "doneWrite"}
                                  /\ wpc'[w] = "notify"
            \/ \E w \in Workers : /\ wtask[w] = t
                                  /\ wtimer[w] \in {"get", "write"}
                                  /\ wtimer'[w] = "notify"
    THEN <<"taskFailed">>
    ELSE IF ctask = t /\ cpc = "write" /\ cpc' = "idle"
    THEN <<"taskCancelled">>
    ELSE <<>>

\* emit appends to the task's events (the model keeps MaxEvents of them).
EmitEvents ==
    events' = [t \in Tasks |->
                 IF Len(events[t]) < MaxEvents THEN events[t] \o emitted(t)
                 ELSE events[t]]

\* The status an event announces.
statusOf(ev) ==
    IF ev = "taskCompleted" THEN "completed"
    ELSE IF ev = "taskFailed" THEN "failed" ELSE "cancelled"

InitExt == InitWebhookCfg /\ InitDebounce /\ InitCancelReq /\ InitEvents

InitMore ==
    /\ InitNotify /\ InitAttr /\ InitRoute /\ InitMarkFail /\ InitTimeoutCfg
    /\ InitExt

InitSide ==
    /\ InitProc /\ InitRecs /\ InitHook /\ InitConfig /\ InitShutdown
    /\ InitSessions /\ InitMore

\* ------------------------------------ ClaudeExecutor.execute, I/O failures
\* withLock whose db.write() rejects: the lock is released, the file is as
\* it was, db.data keeps the operation's change.
withLockFail(st) == [st EXCEPT !.lock = FALSE]

\* The pre-budget check's sessionStore.get rejects (db.read fails: the file
\* is unreadable or no JSON).  The call is outside execute's try block.
ExecPreReadFail(e) ==
    /\ epc[e] = "idle"
    /\ SumCalls(calls, Execs) < MaxCalls
    /\ calls' = [calls EXCEPT ![e] = @ + 1]
    /\ erec' = [erec EXCEPT ![e] = 0]
    /\ ecost' = [ecost EXCEPT ![e] = 0]
    /\ eret' = [eret EXCEPT ![e] = "rejected"]
    /\ UNCHANGED <<sess, stats, epc, spawned>>

\* The post-budget check's sessionStore.get rejects: inside the try block,
\* the catch block takes over.
ExecPostReadFail(e) ==
    /\ epc[e] = "post"
    /\ epc' = [epc EXCEPT ![e] = "catch"]
    /\ UNCHANGED <<sess, stats, ecost, eret, erec, spawned, calls>>

\* recordRequest({success: true}) rejects at its db.write(): catch block.
ExecRecWriteFail(e) ==
    /\ epc[e] = "recWrite"
    /\ stats' = withLockFail(stats)
    /\ epc' = [epc EXCEPT ![e] = "catch"]
    /\ UNCHANGED <<sess, ecost, eret, erec, spawned, calls>>

\* addCost or incrementMessages rejects at its db.write(): catch block.
ExecSessWriteFail(e) ==
    /\ epc[e] \in {"addWrite", "incWrite"}
    /\ sess' = withLockFail(sess)
    /\ epc' = [epc EXCEPT ![e] = "catch"]
    /\ UNCHANGED <<stats, ecost, eret, erec, spawned, calls>>

\* The catch block: recordRequest({success: false}) under the stats lock.
ExecCatchOp(e) ==
    /\ epc[e] = "catch"
    /\ ~stats.lock
    /\ stats' = withLockOp(stats, recordRequest(stats.mem, FALSE))
    /\ erec' = [erec EXCEPT ![e] = @ + 1]
    /\ epc' = [epc EXCEPT ![e] = "failWrite"]
    /\ UNCHANGED <<sess, ecost, eret, spawned, calls>>

\* The catch block's recordRequest rejects at its db.write(): nothing
\* catches that, execute rejects.
ExecFailWriteFail(e) ==
    /\ epc[e] = "failWrite"
    /\ stats' = withLockFail(stats)
    /\ eret' = [eret EXCEPT ![e] = "rejected"]
    /\ epc' = [epc EXCEPT ![e] = "idle"]
    /\ UNCHANGED <<sess, ecost, erec, spawned, calls>>

ExecFault(e) ==
    \/ ExecPreReadFail(e)
    \/ ExecPostReadFail(e)
    \/ ExecRecWriteFail(e)
    \/ ExecSessWriteFail(e)
    \/ ExecCatchOp(e)
    \/ ExecFailWriteFail(e)

\* ------------------------------------------------------------ step groups
\* processQueue and executeTask up to the executor's return and what
\* follows it; the timeout timer aside.
RunStep(w) ==
    \/ PQStart(w)
    \/ PQFetch(w)
    \/ PQMarkOp(w)
    \/ PQMarkCommit(w)
    \/ \E res \in {"ok", "fail"} : ExecReturn(w, res)
    \/ DoneGet(w)
    \/ DoneOp(w)
    \/ DoneCommit(w)
    \/ ExecFinally(w)

TimerStep(w) ==
    \/ TimeoutFire(w)
    \/ TimeoutGet(w)
    \/ TimeoutOp(w)
    \/ TimeoutCommit(w)
    \/ TimeoutNotify(w)

StartStep ==
    StartCall \/ StartList \/ StartResetOp \/ StartResetCommit \/ StartTick

CancelStep ==
    (\E t \in Tasks : CancelGet(t)) \/ CancelGet2 \/ CancelOp \/ CancelCommit

ExecStep(e) ==
    \/ ExecPre(e)
    \/ \E c \in Costs : ExecChildOk(e, c)
    \/ ExecChildFail(e)
    \/ ExecFailCommit(e)
    \/ ExecPost(e)
    \/ ExecRecOp(e)
    \/ ExecRecCommit(e)
    \/ ExecAddOp(e)
    \/ ExecAddCommit(e)
    \/ ExecIncOp(e)
    \/ ExecIncCommit(e)

\* ---------------------------------------------------------- specifications
\* The task queue with clients that submit tasks (any priority), started on
\* a new data directory or on the store a crashed run left.  What the
\* executor does inside a call is not looked at: it returns ok or fail.
Init ==
    /\ (InitEmptyStore \/ InitLeftStore) /\ InitQueue /\ InitHist /\ InitExec
    /\ InitSide

Next ==
    /\ \/ \E w \in Workers : RunStep(w)
       \/ PQSkip
       \/ StartStep
       \/ (\E p \in Priorities : AddOp(p)) \/ AddCommit
       \/ StoreRead
    /\ UNCHANGED <<execVars, sideVars>>

Spec == Init /\ [][Next]_vars

\* The started queue on a new data directory; clients submit tasks of the
\* default priority and cancel.
InitRunning ==
    InitEmptyStore /\ InitStarted /\ InitHist /\ InitExec /\ InitSide

NextCancel ==
    /\ \/ \E w \in Workers : RunStep(w)
       \/ AddOp(5) \/ AddCommit
       \/ CancelStep
    /\ UNCHANGED <<execVars, sideVars>>

SpecCancel == InitRunning /\ [][NextCancel]_vars

\* The started queue on a new data directory; clients submit tasks of the
\* default priority, and executions may run into the task timeout.
NextTimeout ==
    /\ \/ \E w \in Workers : RunStep(w) \/ TimerStep(w)
       \/ AddOp(5) \/ AddCommit
    /\ UNCHANGED <<execVars, sideVars>>

SpecTimeout == InitRunning /\ [][NextTimeout]_vars

\* The executor alone: execute calls for one session, all with the budget
\* Budget, from synchronous requests and queued tasks alike.
NextExec ==
    /\ \E e \in Execs : ExecStep(e)
    /\ UNCHANGED <<storeVars, queueVars, histVars, sideVars>>

SpecExec == InitRunning /\ [][NextExec]_vars

\* The executor with store reads and writes that may fail.
NextExecFaults ==
    /\ \E e \in Execs : ExecStep(e) \/ ExecFault(e)
    /\ UNCHANGED <<storeVars, queueVars, histVars, sideVars>>

SpecExecFaults == InitRunning /\ [][NextExecFaults]_vars

\* Several processes on one document, writes that may fail.
NextProcs ==
    /\ \E p \in Procs : ProcStep(p)
    /\ UNCHANGED <<storeVars, queueVars, histVars, execVars, rpc, hookVars,
                   cfgVars, shutVars, sessions, moreVars>>

SpecProcs == InitRunning /\ [][NextProcs]_vars

\* N recordRequest calls of one process, and statistics reads.
NextStats ==
    /\ \/ \E i \in Recs, ok \in BOOLEAN : StatRecOp(i, ok)
       \/ \E i \in Recs : StatRecCommit(i)
       \/ StatsRead
    /\ UNCHANGED <<storeVars, queueVars, histVars, procVars, hookVars,
                   cfgVars, shutVars, sessions, moreVars>>
    /\ UNCHANGED <<sess, epc, ecost, eret, erec, spawned, calls>>

SpecStats == InitRunning /\ [][NextStats]_vars

\* One notifier, constructed with any retries option, one notify call.
NextHook ==
    /\ HookStep
    /\ UNCHANGED <<storeVars, queueVars, histVars, execVars, procVars, rpc,
                   cfgVars, shutVars, sessions, moreVars>>

SpecHook == InitRunning /\ [][NextHook]_vars

\* config.json is edited and reloaded while children are spawned; the
\* queue is started and idle.
NextConfig ==
    /\ ConfigStep
    /\ UNCHANGED <<storeVars, running, timerOn, kick, active, workerVars,
                   startVars, cancelVars, addVars, histVars, execVars,
                   procVars, rpc, hookVars, shutVars, sessions,
                   moreVars>>

InitReload ==
    /\ InitEmptyStore /\ InitStarted /\ InitHist /\ InitExec
    /\ InitProc /\ InitRecs /\ InitHook /\ InitShutdown /\ InitSessions
    /\ InitMore /\ InitConfigAny

SpecConfig == InitReload /\ [][NextConfig]_vars

\* The started queue with clients submitting tasks, and signals.  Nothing
\* runs once the process has exited.  Timers fire and store operations
\* complete; an execution may never return and a connection may stay
\* open.
QueueProgress(w) ==
    \/ PQStart(w) \/ PQFetch(w) \/ PQMarkOp(w) \/ PQMarkCommit(w)
    \/ DoneGet(w) \/ DoneOp(w) \/ DoneCommit(w) \/ ExecFinally(w)

shutdownFrame ==
    UNCHANGED <<storeVars, kick, concurrency, active, workerVars, startVars,
                cancelVars, addVars, histVars, execVars, procVars, rpc,
                hookVars, cfgVars, sessions, moreVars>>

NextShutdown ==
    /\ exited = "no"
    /\ \/ /\ \/ \E w \in Workers : RunStep(w)
             \/ PQSkip
             \/ AddOp(5) \/ AddCommit
          /\ UNCHANGED <<execVars, sideVars>>
       \/ /\ ShutdownStep
          /\ shutdownFrame

FairTimers == exited = "no" /\ ShutdownTimers /\ shutdownFrame

FairQueue(w) ==
    exited = "no" /\ QueueProgress(w) /\ UNCHANGED <<execVars, sideVars>>

FairAdd == exited = "no" /\ AddCommit /\ UNCHANGED <<execVars, sideVars>>

SpecShutdown ==
    /\ InitRunning /\ [][NextShutdown]_vars
    /\ WF_vars(FairTimers)
    /\ WF_vars(FairAdd)
    /\ \A w \in Workers : WF_vars(FairQueue(w))

\* The running server: clients create, continue and delete sessions, and
\* days pass.
sessionFrame ==
    UNCHANGED <<storeVars, queueVars, histVars, execVars, procVars, rpc,
                hookVars, cfgVars, shutVars, moreVars>>

NextSessions == SessionStep /\ sessionFrame

SpecSessions ==
    /\ InitRunning /\ [][NextSessions]_vars
    /\ WF_vars(DayPasses /\ sessionFrame)

\* The started queue with clients submitting tasks; every webhook delivery
\* may succeed or fail.
notifyFrame ==
    UNCHANGED <<execVars, procVars, rpc, hookVars, cfgVars, shutVars,
                sessions, okCount, okCost, routeVars, mfail, tmoVars,
                extVars>>

NextNotify ==
    \/ /\ \/ \E w \in Workers : RunToNotify(w)
          \/ PQSkip
          \/ AddOp(5) \/ AddCommit
          \/ StoreRead
       /\ UNCHANGED <<execVars, sideVars>>
    \/ /\ \E w \in Workers, o \in notifyOutcomes : WebhookReturn(w, o)
       /\ notifyFrame

SpecNotify == InitRunning /\ [][NextNotify]_vars

\* The executor alone, with the successful calls and their costs counted.
NextAttr ==
    /\ \E e \in Execs :
          /\ ExecStep(e)
          /\ okCount' = IF ReturnsSuccess(e) THEN okCount + 1 ELSE okCount
          /\ okCost' = IF ReturnsSuccess(e) THEN okCost + ecost[e] ELSE okCost
    /\ UNCHANGED <<storeVars, queueVars, histVars, procVars, rpc, hookVars,
                   cfgVars, shutVars, sessions, whook, routeVars, mfail,
                   tmoVars, extVars>>

SpecAttr == InitRunning /\ [][NextAttr]_vars

\* Clients of the session routes.
NextRoute ==
    /\ RouteStep
    /\ UNCHANGED <<storeVars, queueVars, histVars, execVars, procVars, rpc,
                   hookVars, cfgVars, shutVars, sessions, whook, okCount,
                   okCost, mfail, tmoVars, extVars>>

SpecRoute == InitRunning /\ [][NextRoute]_vars

\* The started queue with room for two tasks at once; clients submit tasks
\* of the default priority.
InitTwoSlots ==
    /\ InitEmptyStore /\ InitHist /\ InitExec /\ InitSide
    /\ running = TRUE /\ timerOn = TRUE
    /\ concurrency = TwoSlots
    /\ InitWorkers

NextTick ==
    /\ \/ \E w \in Workers : RunStep(w)
       \/ AddOp(5) \/ AddCommit
    /\ UNCHANGED <<execVars, sideVars>>

SpecTick == InitTwoSlots /\ [][NextTick]_vars

\* The started queue with clients submitting tasks; markProcessing may
\* fail at the lock or at the write.
NextMarkFail ==
    \/ /\ \/ \E w \in Workers : RunStep(w)
          \/ AddOp(5) \/ AddCommit
       /\ UNCHANGED <<execVars, sideVars>>
    \/ /\ \E w \in Workers : PQMarkLockTimeout(w) \/ PQMarkWriteFail(w)
       /\ UNCHANGED <<execVars, procVars, rpc, hookVars, cfgVars, shutVars,
                      sessions, whook, okCount, okCost, routeVars, tmoVars,
                      extVars>>

SpecMarkFail == InitRunning /\ [][NextMarkFail]_vars

\* Several processes on one document; the file system may fail any write,
\* that of the lock id included.
NextLock ==
    /\ \E p \in Procs : ProcStep(p) \/ ProcAcquireFail(p)
    /\ UNCHANGED <<storeVars, queueVars, histVars, execVars, rpc, hookVars,
                   cfgVars, shutVars, sessions, moreVars>>

SpecLock == InitRunning /\ [][NextLock]_vars

\* config.json's taskQueue section is edited and reloaded; the queue is
\* started and idle.
NextReloadTimeout ==
    /\ \/ \E c \in ConcValues, t \in TimeoutValues : TaskQueueEdit(c, t)
       \/ \E r \in Reloads : TimeoutDebounceFire(r) \/ TimeoutReloadApply(r)
    /\ UNCHANGED <<storeVars, running, timerOn, kick, active, workerVars,
                   startVars, cancelVars, addVars, histVars, execVars,
                   procVars, rpc, hookVars, shutVars, sessions, whook,
                   okCount, okCost, routeVars, mfail, extVars>>

SpecReloadTimeout == InitRunning /\ [][NextReloadTimeout]_vars

\* config.json's webhook section is edited and reloaded while
\* notifications are sent; the queue is started and idle.
NextReloadWebhook ==
    /\ \/ \E c \in ConcValues, b \in BOOLEAN : WebhookEdit(c, b)
       \/ \E r \in Reloads : WebhookDebounceFire(r) \/ WebhookReloadApply(r)
       \/ \E ok \in BOOLEAN : NotifyCall(ok)
    /\ UNCHANGED <<storeVars, running, timerOn, kick, active, workerVars,
                   startVars, cancelVars, addVars, histVars, execVars,
                   procVars, rpc, hookVars, shutVars, sessions, whook,
                   okCount, okCost, routeVars, mfail, tmoVars, dbVars, creq,
                   events>>

SpecReloadWebhook == InitRunning /\ [][NextReloadWebhook]_vars

\* config.json is edited while time passes; reloads run and agents are
\* spawned; the queue is started and idle.
NextWatch ==
    /\ \/ \E c \in ConcValues, p \in PathValues : WatchEdit(c, p)
       \/ TimePasses
       \/ \E r \in Reloads : WatchTimerFire(r) \/ WatchReloadApply(r)
       \/ SpawnAgent
    /\ UNCHANGED <<storeVars, running, timerOn, kick, active, workerVars,
                   startVars, cancelVars, addVars, histVars, execVars,
                   procVars, rpc, hookVars, shutVars, sessions, whook,
                   okCount, okCost, routeVars, mfail, tmoVars, whVars, creq,
                   events>>

SpecWatch == InitRunning /\ [][NextWatch]_vars

\* The started queue with clients submitting and cancelling tasks; the
\* cancel requests are recorded.
NextCancelReq ==
    \/ /\ \/ \E w \in Workers : RunStep(w)
          \/ AddOp(5) \/ AddCommit
          \/ CancelGet2 \/ CancelOp \/ CancelCommit
       /\ UNCHANGED <<execVars, sideVars>>
    \/ /\ \E t \in Tasks : CancelRequest(t)
       /\ UNCHANGED <<execVars, baseSide, whVars, dbVars, events>>

SpecCancelReq == InitRunning /\ [][NextCancelReq]_vars

\* The started queue with clients submitting tasks and the timeout
\* timers; the events emitted are recorded.
NextEvents ==
    /\ \/ \E w \in Workers : RunStep(w) \/ TimerStep(w)
       \/ AddOp(5) \/ AddCommit
    /\ EmitEvents
    /\ UNCHANGED <<execVars, baseSide, whVars, dbVars, creq>>

SpecEvents == InitRunning /\ [][NextEvents]_vars

\* The started queue with clients submitting tasks.  Ticks keep firing,
\* every executor call returns and every store operation completes.
NextProgress ==
    /\ \/ \E w \in Workers : RunStep(w)
       \/ AddOp(5) \/ AddCommit
    /\ UNCHANGED <<execVars, sideVars>>

FairRun(w) == RunStep(w) /\ UNCHANGED <<execVars, sideVars>>

FairAddCommit == AddCommit /\ UNCHANGED <<execVars, sideVars>>

SpecProgress ==
    /\ InitRunning /\ [][NextProgress]_vars
    /\ WF_vars(FairAddCommit)
    /\ \A w \in Workers : SF_vars(FairRun(w))

\* Several processes on one document (a server and the one started after
\* it); a process may terminate inside withLock.  The operations of a live
\* process complete.
procFrame ==
    UNCHANGED <<storeVars, queueVars, histVars, execVars, rpc, hookVars,
                cfgVars, shutVars, sessions, moreVars>>

NextCrash ==
    /\ \E p \in Procs : ProcStep(p) \/ ProcCrash(p) \/ ProcAcquireTimeout(p)
    /\ procFrame

FairProc(p) == (ProcStep(p) \/ ProcAcquireTimeout(p)) /\ procFrame

SpecCrash ==
    /\ InitRunning /\ [][NextCrash]_vars
    /\ \A p \in Procs : WF_vars(FairProc(p))

\* ------------------------------------------------------------------ claims

\* C1: the size of activeTasks never exceeds the configured concurrency,
\* whatever the interleaving of addTask, scheduler ticks, store reads and
\* writes and executor completions.
C1_ConcurrencyCap == Cardinality(active) <= concurrency

\* C2: once a task's persisted status is completed, failed or cancelled, no
\* later step changes that status.
C2_TerminalFinal ==
    [][\A t \in Tasks :
          Terminal(disk[t].status) => disk'[t].status = disk[t].status]_vars

\* C3: after cancelTask succeeded on a task whose persisted status was
\* processing, the persisted status is cancelled and the result unset, also
\* once the executor call that was in flight has returned.
C3_CancelledWhileProcessingStays ==
    \A t \in Tasks :
        cancelOK[t] = "processing" =>
            disk[t].status = "cancelled" /\ disk[t].result = "null"

\* C4: a task whose persisted status was pending when cancelTask cancelled
\* it is afterwards never processing and never with the executor.
C4_CancelledWhilePendingNeverRuns ==
    \A t \in Tasks :
        cancelOK[t] = "pending" =>
            /\ disk[t].status # "processing"
            /\ \A w \in Workers : ~(wtask[w] = t /\ wpc[w] = "exec")

\* The timeout handler of invocation w has persisted its 'failed'.
TimedOut(w) ==
    /\ wtimer[w] \in {"notify", "done"}
    /\ disk[wtask[w]].status = "failed"
    /\ disk[wtask[w]].error = "timeout"

\* C5: once the timeout handler has persisted failed / 'Task execution
\* timeout' / cost 0 for a task, that stays the task's state while the
\* executor call that was in flight returns and is handled.
C5_TimeoutStays ==
    [][\A w \in Workers :
          TimedOut(w) =>
              /\ disk'[wtask[w]].status = "failed"
              /\ disk'[wtask[w]].error = "timeout"
              /\ disk'[wtask[w]].cost_usd = 0]_vars

\* The order of getNextPending's sort: t comes before u.
Before(doc, t, u) ==
    \/ doc[t].priority > doc[u].priority
    \/ doc[t].priority = doc[u].priority /\ t < u

\* C6, as stated: at the moment a task is dispatched (marked processing and
\* handed to the executor) it has the highest priority among all tasks
\* pending at that moment, and is the earliest created of that priority.
C6_BestWhenDispatched ==
    [][\A w \in Workers :
          (wpc[w] = "markWrite" /\ wpc'[w] = "exec") =>
              \A u \in Tasks \ {wtask[w]} :
                  disk'[u].status = "pending" => Before(disk', wtask[w], u)]_vars

\* C6, amended: the task a tick selects is pending and has the highest
\* priority, and within it the earliest creation, among the tasks pending
\* in the store when getNextPending read it; and tasks that are all
\* pending before the start, with nothing enqueued meanwhile, are dispatched
\* in that order (T2, T1, T3 for priorities 5, 9, 5).
C6_BestWhenSelected ==
    /\ [][\A w \in Workers :
            (wpc[w] = "fetch" /\ wpc'[w] = "mark") =>
                /\ disk[wtask'[w]].status = "pending"
                /\ \A u \in Tasks \ {wtask'[w]} :
                      disk[u].status = "pending" => Before(disk, wtask'[w], u)]_vars
    /\ []((adds = 0 /\ created = MaxTasks /\ restored = {}) =>
            \A t, u \in Tasks :
                (Before(disk, t, u) /\ ndisp[u] >= 1) => ndisp[t] >= 1)

\* T1(p=5), T2(p=9), T3(p=5) were pending at the start and all three have
\* been dispatched.
C6_AllThreeDispatched ==
    /\ adds = 0 /\ created = MaxTasks /\ restored = {} /\ timerOn
    /\ disk[1].priority = 5 /\ disk[2].priority = 9 /\ disk[3].priority = 5
    /\ \A t \in Tasks : ndisp[t] >= 1

\* C7: once start() has finished, every task it found in processing has
\* been reset to pending: such a task is processing again only by having
\* been dispatched again.
C7_RestoredAreReset ==
    timerOn =>
        \A t \in restored : disk[t].status = "processing" => ndisp[t] >= 1

\* C8: the session's persisted total_cost_usd never exceeds the budget all
\* its execute calls are given.
C8_BudgetCap == sess.disk.total_cost_usd <= Budget

\* C9: an execute call that finds the stored total_cost_usd >= the budget
\* returns budget_exceeded at once: no child is spawned, no statistics
\* counter and nothing of the session record changes, and the call is over.
C9_PreBudgetRefusal ==
    [][\A e \in Execs :
          (calls'[e] # calls[e] /\ sess.disk.total_cost_usd >= Budget) =>
              /\ eret'[e] = "budget_pre" /\ epc'[e] = "idle"
              /\ spawned' = spawned
              /\ stats' = stats /\ erec'[e] = 0
              /\ sess'.disk = sess.disk /\ sess'.wbuf = sess.wbuf
              /\ sess'.lock = sess.lock]_vars

\* A call was refused by the pre-budget check on a spent-up session.
C9_Refused ==
    \E e \in Execs :
        eret[e] = "budget_pre" /\ sess.disk.total_cost_usd >= Budget

\* C10: a call that returned budget_exceeded from the post-budget check has
\* recorded exactly one (successful) request in the statistics store.
C10_PostBudgetRecorded ==
    \A e \in Execs : eret[e] = "budget_post" => erec[e] = 1

\* C11: two processes never are inside withLock's critical section at the
\* same time, and no committed update is lost: every item whose withLock
\* returned normally is in the file.
C11_SerialisedNoLostUpdate ==
    /\ \A p, q \in Procs : (ppc[p] = "write" /\ ppc[q] = "write") => p = q
    /\ committed \subseteq fdisk

\* C12: when all N recordRequest calls have returned, requests.total is N
\* and the model counts sum to N.
C12_NoLostIncrement ==
    (\A i \in Recs : rpc[i] = "done") =>
        stats.disk.total = MaxRecs /\ stats.disk.models = MaxRecs

\* C13: an item whose db.write() failed is not in the in-memory document of
\* the process afterwards, and so never reaches the file.
C13_FailedWriteDiscarded ==
    \A p \in Procs :
        ppc[p] = "idle" =>
            \A i \in failed : i[1] = p => (i \notin pmem[p] /\ i \notin fdisk)

\* C14: no execute call rejects: every failure comes back as a resolved
\* {success: false, error} record.
C14_ExecuteNeverRejects == \A e \in Execs : eret[e] # "rejected"

\* C15: with retries configured as a number r, a notify that returned
\* success did so at the attempt it reports, which is the number of posts
\* made; one that returned max_retries_exceeded made exactly r posts and
\* waited min(1000 * 2^(n-1), 10000) ms after each failed attempt n < r.
C15_RetriesAndBackoff ==
    (hpc = "done" /\ hcfg # Unset) =>
        IF hret.success
        THEN hret.attempt = hposts /\ hposts <= hcfg
        ELSE /\ hret.reason = "max_retries_exceeded"
             /\ hposts = hcfg
             /\ Len(hwaited) = (IF hcfg = 0 THEN 0 ELSE hcfg - 1)
             /\ \A n \in 1..Len(hwaited) :
                   hwaited[n] = (IF 1000 * Pow2(n - 1) < 10000
                                 THEN 1000 * Pow2(n - 1) ELSE 10000)

\* C16: a child gets IS_SANDBOX=1 only when enableRootCompatibility is
\* explicitly true in the configuration; with the option absent or false,
\* root or not, the variable is not set.
C16_SandboxOnlyOptIn ==
    \A x \in envlog : x.sandbox => x.opt = "true"

\* C17: once a modification of config.json with a valid concurrency has been
\* reloaded (debounce timer fired, no reload in flight), the queue's cap is
\* the value in the file.
C17_ReloadedConcurrency ==
    (ReloadQuiet /\ fconc >= 1) => concurrency = fconc

\* C18: stop() returns once its 10-second drain cap has elapsed: after the
\* cap timer has fired and the drain loop has polled again, no stop() call
\* is still in the drain loop, whatever the executions in progress do.
C18_StopReturnsAtCap ==
    (capFired /\ latePoll /\ \A w \in Workers : wpc[w] \in {"idle", "exec"})
        => \A k \in Signals : shpc[k] # "drain"

C20_ExpiredEventuallyRemoved ==
    \A s \in SessIds : Expired(s) ~> ~Expired(s)

\* C21: the step in which a failed webhook delivery of executeTask ends
\* leaves the task document as it is, takes the task's id out of
\* activeTasks, ends the executeTask call and requests a processQueue call.
C21_WebhookFailureIsolated ==
    [][\A w \in Workers :
          (wpc[w] = "notify" /\ wpc'[w] # "notify" /\ whook'[w] = "failed")
              => /\ disk' = disk /\ mem' = mem
                 /\ wtask[w] \notin active'
                 /\ wpc'[w] = "idle"
                 /\ (kick' \/ timerOn')]_vars

C21_FailedDelivery ==
    \E w \in Workers, t \in Tasks :
        /\ whook[w] = "failed" /\ wpc[w] = "idle"
        /\ t \notin active
        /\ disk[t].status = "completed"

\* C22: when no execute call is in progress, the session's total_cost_usd
\* is the sum of the costs of the calls that returned success, its
\* messages_count is their number, and so is the statistics store's count
\* of successful requests.
C22_ExactAttribution ==
    (\A e \in Execs : epc[e] = "idle") =>
        /\ sess.disk.total_cost_usd = okCost
        /\ sess.disk.messages_count = okCount
        /\ stats.disk.successful = okCount

\* C23: a continue request for a session that does not exist is answered
\* 404, one for a session that is not active is answered 500, and in both
\* cases the executor was not invoked.
C23_ContinueAnswers ==
    \A r \in Reqs :
        rq[r].pc = "done" =>
            /\ rq[r].seen = "absent" => (rq[r].code = 404 /\ ~rq[r].ran)
            /\ rq[r].seen \in {"archived", "closed"}
                   => (rq[r].code = 500 /\ ~rq[r].ran)

\* C24: a task id leaves activeTasks only when the task's terminal status
\* is in the file.
C24_RemovedAfterTerminal ==
    [][\A t \in Tasks :
          (t \in active /\ t \notin active') => Terminal(disk'[t].status)]_vars

\* C25: no two executeTask invocations for the same task id are in flight.
InExecuteTask(w) ==
    wpc[w] \in {"exec", "doneGet", "doneOp", "doneWrite", "notify"}

C25_OneExecutionPerTask ==
    \A v, w \in Workers :
        (InExecuteTask(v) /\ InExecuteTask(w) /\ wtask[v] = wtask[w]) => v = w

\* C26: when a processQueue call that dispatched a task finishes while the
\* queue is running, no free slot is left together with a pending task
\* that is not reserved.
Dispatchable(doc, act) ==
    \E t \in Tasks : Exists(doc, t) /\ doc[t].status = "pending" /\ t \notin act

C26_TickFillsSlots ==
    [][\A w \in Workers :
          (wpc[w] = "markWrite" /\ wpc'[w] = "exec" /\ running')
              => ~(Cardinality(active') < concurrency' /\ Dispatchable(disk', active'))]_vars

\* C27: once stop() has cleared `running`, no processQueue call writes
\* 'processing' or hands a task to the executor.
C27_NoDispatchAfterStop ==
    [][~running =>
          \A w \in Workers :
              /\ ~(wpc[w] = "mark" /\ wpc'[w] = "markWrite")
              /\ ~(wpc[w] = "markWrite" /\ wpc'[w] = "exec")]_vars

\* C28: a task whose markProcessing failed and that has not been handed to
\* the executor is not reserved and its status in the file is pending.
C28_FailedMarkStaysPending ==
    \A t \in mfail :
        (ndisp[t] = 0 /\ \A w \in Workers : wtask[w] # t)
            => (t \notin active /\ disk[t].status = "pending")

\* C29: a process that is not inside withLock does not hold the lock, and
\* when no withLock call is in progress the lock file does not exist.
C29_LockFreeAfterWithLock ==
    /\ \A p \in Procs : ppc[p] = "idle" => flock # p
    /\ (\A p \in Procs : ppc[p] = "idle") => flock = NoProc

\* C30: once a modification of config.json with a valid defaultTimeout has
\* been reloaded (no reload pending or in flight), the queue's
\* defaultTimeout is the value in the file.
C30_ReloadedTimeout ==
    (ReloadQuiet /\ ftime >= 1) => qtimeout = ftime

\* C31: a notify call made after a reload of config.json has completed (no
\* reload pending or in flight) follows the file's webhook.enabled: it
\* returns reason 'disabled' and posts nothing exactly when the file has
\* webhook.enabled false.
C31_NotifyFollowsReload ==
    [][(ReloadQuiet /\ edits >= 1 /\ nret' # nret)
          => ((nret' = "disabled") <=> ~fwh)]_vars

\* C32: change events less than 500 ms apart lead to one reload: there are
\* never more reloads than groups of such events, and when no timer is
\* armed a reload has followed the last event.  A reload starts only after
\* 500 ms without a change event and reads the file as it is then.
C32_DebouncedReload ==
    /\ nreloads <= bursts
    /\ (~rtimer /\ bursts >= 1) => nreloads >= 1
    /\ lastFire.quiet >= DEBOUNCE_DELAY
    /\ lastFire.read = lastFire.file

\* C32 witness: two modifications within the window were followed by one
\* reload, which read the second content.
C32_BurstCoalesced ==
    /\ edits = 2 /\ bursts = 1 /\ nreloads = 1 /\ ~rtimer
    /\ lastFire.read = <<fconc, fcp>>

\* C33: every agent spawned runs the path that was in effect at startup.
C33_SpawnsStartupPath == spawnedPath \in {"none", StartupPath}

\* C34: a cancelTask call that finds no task of that id, or finds it
\* completed, failed or cancelled, returns at once: the stored document,
\* activeTasks and the taskCancelled events are as before, and
\* taskStore.cancel is not called.
C34_RefusedCancelIsInert ==
    [][(cancels' = cancels + 1
        /\ creq'.was \in {"absent", "completed", "failed", "cancelled"})
          => /\ disk' = disk
             /\ active' = active
             /\ cancelOK' = cancelOK
             /\ cpc' = "idle"]_vars

\* C34 witness: cancelTask was called on a completed task and has returned;
\* the task is still completed and no taskCancelled was emitted.
C34_CancelOfCompleted ==
    /\ creq.was = "completed"
    /\ cpc = "idle"
    /\ disk[creq.task].status = "completed"
    /\ cancelOK[creq.task] = "no"

\* C35: no step lowers the session's stored total_cost_usd or
\* messages_count.
C35_CostAndCountMonotone ==
    [][/\ sess'.disk.total_cost_usd >= sess.disk.total_cost_usd
       /\ sess'.disk.messages_count >= sess.disk.messages_count]_vars

\* The executor call of the executeTask of processQueue invocation w has
\* not returned.
ExecutorInFlight(w) == wpc[w] = "exec"

\* C36: the executor calls in flight for the queue never outnumber the
\* configured concurrency.
C36_ExecutorCallsCapped ==
    Cardinality({w \in Workers : ExecutorInFlight(w)}) <= concurrency

\* C37: the executor is invoked at most once for a task id.
C37_DispatchedOnce == \A t \in Tasks : ndisp[t] <= 1

\* C38: at most one of taskCompleted, taskFailed and taskCancelled is
\* emitted for a task, and once nothing is under way the stored status is
\* the one the event announced.
C38_OneTerminalEvent ==
    \A t \in Tasks :
       /\ Len(events[t]) <= 1
       /\ (/\ Len(events[t]) = 1
           /\ \A w \in Workers : wpc[w] = "idle" /\ wtimer[w] = "off"
           /\ cpc = "idle" /\ apc = "idle")
             => disk[t].status = statusOf(events[t][1])

\* addTask has returned task t.
Accepted(t) == t <= created /\ ~(t = created /\ apc = "write")

\* C39: every task accepted by addTask eventually has a stored status of
\* completed, failed or cancelled and is not in activeTasks.
C39_AcceptedTaskFinishes ==
    \A t \in Tasks :
       Accepted(t) ~> (Terminal(disk[t].status) /\ t \notin active)

\* C40: when a process has terminated while it held the lock file, the
\* lock eventually becomes free again, so that the withLock calls of the
\* process started afterwards acquire it.
C40_LockFreedAfterCrash ==
    \A p \in Procs : (ppc[p] = "dead" /\ flock = p) ~> (flock # p)

====
